---- MODULE Spec2Model ----
(***************************************************************************)
(* playwright-tables: grid materialization (TableHeader.getRows,           *)
(* TableBody.getRows), the stability wait (PlaywrightTable.waitForStable)  *)
(* and the condition poller (toPassWithErrorContext).                      *)
(*                                                                         *)
(* A text is a sequence of string tokens: the cell text "A" is <<"A">>,    *)
(* the empty text is << >>, and the generated name "A__C1" is              *)
(* <<"A", "__C", "1">>.  Template-string concatenation is \o.              *)
(***************************************************************************)
EXTENDS Integers, Sequences, FiniteSets, TLC

(***************************************************************************)
(* Bounds of the model.                                                    *)
(***************************************************************************)
MaxHeaderRows == 3
MaxHeaderCells == 3
MaxRowSpan == 3
MaxColSpan == 2
MaxBodyRows == 3
MaxBodyCells == 3
MaxStability == 4
MaxInterval == 2
MaxTimeout == 9
MaxPollTimeout == 6
MaxFails == 2
MaxCheckTime == 1

MaxLookupHeaderRows == 2

MaxLookupBodyRows == 2

MaxLookupCells == 2

MaxConditions == 2

MaxCastLen == 3

VARIABLES
    hOptions,       \* TableHeader.getRows: options after getDefaultOptions
    hCount,         \* TableHeader.getRows: rows.length
    headerRows,     \* TableHeader.getRows: headerRows
    rowSpans,       \* TableHeader.getRows: rowSpans (Map<number, string>)
    hPc,            \* TableHeader.getRows: "rows" (in the loop) or "done" (returned)
    hCells,         \* history: the cells read for each header row
    hPlaced,        \* history: where each physical header cell was placed
    hBeforeSuffix,  \* history: headerRows as applyDuplicateSuffix received them
    hError,         \* TableHeader.getRows: what the error thrown reports
    hReads,         \* history: calls of processRow in this call of getRows
    hRun,           \* history: 1 in the first call of getRows, 2 in the second
    hFirst,         \* history: what the first call of getRows returned
    hGrid,          \* history: the cells the first call read (the page is static)
    hCellDomain,    \* the cells the header rows of the page may hold
    bCount,         \* TableBody.getRows: rowsCount
    bodyRows,       \* TableBody.getRows: rows
    spannedCells,   \* TableBody.getRows: spannedCells (Record<number, Cell[]>)
    bPc,            \* TableBody.getRows: "rows" (in the loop) or "done" (returned)
    bCells,         \* history: the cells read for each body row
    bPhysical,      \* history: each row's columns before applySpannedCells
    bError,         \* TableBody.getRows: what the error thrown reports
    bReads,         \* history: calls of extractColumns in this call of getRows
    bRun,           \* history: 1 in the first call of getRows, 2 in the second
    bFirst,         \* history: what the first call of getRows returned
    bGrid           \* history: the cells the first call read (the page is static)

hVars == <<hOptions, hCount, headerRows, rowSpans, hPc, hCells, hPlaced, hBeforeSuffix,
           hError, hReads, hRun, hFirst, hGrid, hCellDomain>>

bVars == <<bCount, bodyRows, spannedCells, bPc, bCells, bPhysical, bError, bReads, bRun,
           bFirst, bGrid>>

VARIABLES
    now,            \* Date.now(), in ticks of the model clock
    source,         \* the page: the body grid of the table, or a table without rows
    wOptions,       \* waitForStable: stabilityDuration, checkInterval, timeout
    wPc,            \* waitForStable: "loop", "sleep", "returned", "threw", ("idle")
    startTime,      \* waitForStable: startTime
    lastSnapshot,   \* waitForStable: lastSnapshot ("null" for null)
    stableStartTime,\* waitForStable: stableStartTime (-1 for null)
    wakeAt,         \* waitForStable: when the setTimeout of the sleep fires
    wError,         \* waitForStable: what the thrown error reports
    frozen,         \* the page has stopped mutating for good
    lastMutation,   \* history: time of the last mutation of the page (-1: none)
    dirty,          \* history: the page mutated since the last materialization
    obsMutation,    \* history: time of the last mutation a tick saw as a change
    gTicks,         \* history: number of materializations (poll ticks)
    gLastTick,      \* history: time of the last materialization (-1: none)
    gSample,        \* history: what the last materialization returned ("null": failed)
    gSince,         \* history: first tick of the run of ticks that all returned gSample
    gQuiet          \* history: longest time the page stayed unchanged during the wait

wVars == <<now, source, wOptions, wPc, startTime, lastSnapshot, stableStartTime, wakeAt,
           wError, frozen, lastMutation, dirty, obsMutation, gTicks, gLastTick,
           gSample, gSince, gQuiet>>

VARIABLES
    time,           \* monotonicTime(), in ticks of the model clock
    pOptions,       \* toPassWithErrorContext: timeout, intervals, context
    pFailures,      \* the check: the number of invocations that fail first
    pAlways,        \* the check: it fails on every invocation
    pPc,            \* "invoke", "running", "sleep", "returned", "threw", ("idle")
    deadline,       \* toPass: the deadline of the poll
    pollIntervals,  \* toPass: the intervals not used yet
    lastResult,     \* toPass: message of the last failure (<<"undefined">>: none)
    attempts,       \* history: invocations of the check started
    succeeded,      \* history: invocations that completed without failing
    settleAt,       \* when the invocation in flight settles
    pWakeAt,        \* when the setTimeout of the interval fires
    pMessage,       \* message of the error toPassWithErrorContext throws
    pCut,           \* history: the deadline passed with an invocation in flight
    pLastFail,      \* history: raw message, time and next interval of the last failure
    pWaits,         \* history: [interval, from, to] of every sleep
    pInFlight       \* history: invocations of the check started and not settled

pVars == <<time, pOptions, pFailures, pAlways, pPc, deadline, pollIntervals, lastResult,
           attempts, succeeded, settleAt, pWakeAt, pMessage, pCut, pLastFail, pWaits,
           pInFlight>>

VARIABLES
    rowspanAttr,    \* raw value of the cell's rowspan attribute, NullAttr when absent
    colspanAttr,    \* raw value of the cell's colspan attribute, NullAttr when absent
    sPc,            \* "idle", "call", "returned" or "threw"
    sResult,        \* the returned { rowspan, colspan }
    sError          \* the attribute and raw value the thrown message carries

sVars == <<rowspanAttr, colspanAttr, sPc, sResult, sError>>

VARIABLES
    lHeaderRows,        \* table.headerRows as TableHeader.getRows gave them
    lBodyRows,          \* table.bodyRows as TableBody.getRows gave them
    setMainHeaderRow,   \* options.header.setMainHeaderRow: << >> when not given, else <<i>>
    lConditions,        \* Object.entries(conditions), in insertion order
    lTarget,            \* targetHeader
    lPc,                \* "idle", "call", "returned" or "threw"
    lLocator,           \* the row and cell position of the returned locator
    lError,             \* the message thrown and the header or index it names
    lOp,                \* the accessor that is called
    lReturn             \* the rows, row or objects an accessor returned

lVars == <<lHeaderRows, lBodyRows, setMainHeaderRow, lConditions, lTarget, lPc, lLocator,
           lError, lOp, lReturn>>

VARIABLES
    cValue,     \* the text given to castContent, a sequence of characters
    cPc,        \* "idle", "call" or "returned"
    cResult     \* the value castContent returned, with its type

cVars == <<cValue, cPc, cResult>>

vars == <<hVars, bVars, wVars, pVars, sVars, lVars, cVars>>

(***************************************************************************)
(* Helpers on texts and maps.                                              *)
(***************************************************************************)
Min(a, b) == IF a < b THEN a ELSE b

Max(a, b) == IF a > b THEN a ELSE b

\* `${n}` for the small numbers that occur in generated names
NumStr(n) ==
    <<"1", "2", "3", "4", "5", "6", "7", "8", "9", "10", "11", "12", "13", "14", "15",
      "16", "17", "18", "19", "20">>[n]

Digits == {"0", "1", "2", "3", "4", "5", "6", "7", "8", "9"}

Texts == {<<"A">>, <<"B">>}

MapSet(m, k, v) == [x \in (DOMAIN m) \cup {k} |-> IF x = k THEN v ELSE m[x]]

MapDelete(m, k) == [x \in (DOMAIN m) \ {k} |-> m[x]]

EmptyMap == [x \in {} |-> << >>]

(***************************************************************************)
(* TableHeader (the carry map of row spans, colspan and duplicate names).  *)
(***************************************************************************)
EMPTY_CELL_PLACEHOLDER == <<"{{Empty}}">>

COLSPAN_SUFFIX_PREFIX == "__C"

DUPLICATE_SUFFIX_PREFIX == "__D"

\* COLSPAN_PATTERN.test(cell): the text holds "__C" followed by a digit
COLSPAN_PATTERN_test(cell) ==
    \E i \in 1..(Len(cell) - 1) : cell[i] = COLSPAN_SUFFIX_PREFIX /\ cell[i + 1] \in Digits

\* cell.replace(COLSPAN_PATTERN, ""): the first match is removed
COLSPAN_PATTERN_remove(cell) ==
    IF COLSPAN_PATTERN_test(cell)
    THEN LET i == CHOOSE j \in 1..(Len(cell) - 1) :
                     /\ cell[j] = COLSPAN_SUFFIX_PREFIX /\ cell[j + 1] \in Digits
                     /\ \A k \in 1..(j - 1) :
                            ~(cell[k] = COLSPAN_SUFFIX_PREFIX /\ cell[k + 1] \in Digits)
         IN SubSeq(cell, 1, i - 1) \o SubSeq(cell, i + 2, Len(cell))
    ELSE cell

\* the two while loops of processHeaderCellData and addRemainingRowSpans:
\* st = [row, spans, col]
RECURSIVE addRemainingRowSpans(_)
addRemainingRowSpans(st) ==
    IF st.col \in DOMAIN st.spans
    THEN addRemainingRowSpans([row   |-> Append(st.row, st.spans[st.col]),
                               spans |-> MapDelete(st.spans, st.col),
                               col   |-> st.col + 1])
    ELSE st

handleColspan(headerRow, text, colspan) ==
    headerRow \o [i \in 1..(colspan - 1) |-> text \o <<COLSPAN_SUFFIX_PREFIX, NumStr(i)>>]

handleRowspan(spans, text, columnIndex, colspan, rowspan) ==
    IF rowspan > 1
    THEN [x \in (DOMAIN spans) \cup (columnIndex..(columnIndex + colspan - 1)) |->
            IF x \in columnIndex..(columnIndex + colspan - 1) THEN text ELSE spans[x]]
    ELSE spans

processHeaderCellData(cellData, st, emptyCellReplacement) ==
    LET f    == addRemainingRowSpans(st)
        text == IF cellData.text = << >> /\ emptyCellReplacement
                THEN EMPTY_CELL_PLACEHOLDER ELSE cellData.text
    IN [row   |-> handleColspan(Append(f.row, text), text, cellData.colspan),
        spans |-> handleRowspan(f.spans, text, f.col, cellData.colspan, cellData.rowspan),
        col   |-> f.col + cellData.colspan]

RECURSIVE processCells(_, _, _, _)
processCells(cells, i, st, emptyCellReplacement) ==
    IF i > Len(cells) THEN st
    ELSE processCells(cells, i + 1,
                      processHeaderCellData(cells[i], st, emptyCellReplacement),
                      emptyCellReplacement)

\* processRow: [row, spans] for one header row
processRow(cells, spans, options) ==
    IF Len(cells) = 0
    THEN [row |-> << >>, spans |-> spans, col |-> 0]
    ELSE addRemainingRowSpans(
             processCells(cells, 1, [row |-> << >>, spans |-> spans, col |-> 0],
                          options.emptyCellReplacement))

\* the logical column at which processHeaderCellData places cell i of the row
RECURSIVE placedColumn(_, _, _, _)
placedColumn(cells, i, spans, options) ==
    addRemainingRowSpans(
        processCells(SubSeq(cells, 1, i - 1), 1,
                     [row |-> << >>, spans |-> spans, col |-> 0],
                     options.emptyCellReplacement)).col

SelectSeqHeader(row) == SelectSeq(row, LAMBDA cell : ~COLSPAN_PATTERN_test(cell))

removeColspanCells(rows) == [i \in 1..Len(rows) |-> SelectSeqHeader(rows[i])]

removeColspanSuffix(rows) ==
    [i \in 1..Len(rows) |-> [j \in 1..Len(rows[i]) |-> COLSPAN_PATTERN_remove(rows[i][j])]]

applyColspanOptions(rows, options) ==
    LET r1 == IF ~options.colspan.enabled THEN removeColspanCells(rows) ELSE rows
    IN IF ~options.colspan.suffix THEN removeColspanSuffix(r1) ELSE r1

\* occurrences of header among the original values of row[1..i-1]
CountBefore(row, i) == Cardinality({j \in 1..(i - 1) : row[j] = row[i]})

applyDuplicateSuffixRow(row) ==
    [i \in 1..Len(row) |->
        IF CountBefore(row, i) > 0
        THEN row[i] \o <<DUPLICATE_SUFFIX_PREFIX, NumStr(CountBefore(row, i))>>
        ELSE row[i]]

\* one headerCountMap for all the rows instead of one for each row
applyDuplicateSuffix_SharedMap(rows, options) ==
    IF ~options.duplicateSuffix THEN rows
    ELSE LET Before(r, i) ==
                 Cardinality({q \in {<<x, y>> \in (1..r) \X (1..MaxHeaderCells * MaxColSpan) :
                                        y <= Len(rows[x])} :
                                 /\ (q[1] < r \/ q[2] < i)
                                 /\ rows[q[1]][q[2]] = rows[r][i]})
         IN [r \in 1..Len(rows) |->
               [i \in 1..Len(rows[r]) |->
                   IF Before(r, i) > 0
                   THEN rows[r][i] \o <<DUPLICATE_SUFFIX_PREFIX, NumStr(Before(r, i))>>
                   ELSE rows[r][i]]]

applyDuplicateSuffix(rows, options) ==
    IF ~options.duplicateSuffix THEN rows
    ELSE [i \in 1..Len(rows) |-> applyDuplicateSuffixRow(rows[i])]

HeaderOptions ==
    [emptyCellReplacement : BOOLEAN, duplicateSuffix : BOOLEAN,
     colspan : [enabled : BOOLEAN, suffix : BOOLEAN]]

\* plain texts with every span; the empty text and one that holds the colspan
\* pattern in cells of one row
HeaderCell ==
    [text : Texts, rowspan : 1..MaxRowSpan, colspan : 1..MaxColSpan]
        \cup [text : {<< >>, <<COLSPAN_SUFFIX_PREFIX, "1">>}, rowspan : {1}, colspan : 1..MaxColSpan]

CellCount(rowsOfCells) ==
    LET RECURSIVE Sum(_)
        Sum(i) == IF i = 0 THEN 0 ELSE Len(rowsOfCells[i]) + Sum(i - 1)
    IN Sum(Len(rowsOfCells))

\* one plain text with every span
HeaderCellPlain == [text : {<<"A">>}, rowspan : 1..MaxRowSpan, colspan : 1..MaxColSpan]

NoRowError == [rowIndex |-> -1, locator |-> "", selector |-> "", error |-> ""]

\* the error of the catch in getRows, with a row index that is one too high
HeaderRowError_NextIndex(rowIndex) ==
    [rowIndex |-> rowIndex + 1, locator |-> "headerRowLocator",
     selector |-> "columnsSelector", error |-> "cell error"]

\* the error of the catch in getRows
HeaderRowError(rowIndex) ==
    [rowIndex |-> rowIndex, locator |-> "headerRowLocator",
     selector |-> "columnsSelector", error |-> "cell error"]

\* a map kept from one call of getRows to the next
NewRowSpans_Kept(spans) == spans

\* const rowSpans = new Map() of a call of getRows
NewRowSpans(spans) == EmptyMap

HeaderBegin ==
    /\ hOptions \in HeaderOptions
    /\ hCount \in 0..MaxHeaderRows
    /\ headerRows = << >>
    /\ rowSpans = EmptyMap
    /\ hPc = "rows"
    /\ hCells = << >>
    /\ hPlaced = {}
    /\ hBeforeSuffix = << >>
    /\ hError = NoRowError
    /\ hReads = 0
    /\ hRun = 1
    /\ hFirst = << >>
    /\ hGrid = << >>

HeaderStart == HeaderBegin /\ hCellDomain = HeaderCell

HeaderStartPlain == HeaderBegin /\ hCellDomain = HeaderCellPlain

\* the cells row.locator(columnsSelector).all() and fetchHeaderCellData give for the
\* next row: any cells in the first call, the same cells again in the second
HeaderRowCells ==
    IF hRun = 1
    THEN UNION {[1..n -> hCellDomain] : n \in 0..(MaxHeaderCells - CellCount(hCells))}
    ELSE {hGrid[Len(headerRows) + 1]}

\* one iteration of the for loop of getRows: processRow on the next row
HeaderProcessRow ==
    /\ hPc = "rows"
    /\ Len(headerRows) < hCount
    /\ \E cells \in HeaderRowCells :
          LET res == processRow(cells, rowSpans, hOptions)
              r   == Len(headerRows)
          IN /\ headerRows' = Append(headerRows, res.row)
             /\ rowSpans' = res.spans
             /\ hCells' = Append(hCells, cells)
             /\ hPlaced' = hPlaced \cup
                   {[row |-> r, col |-> placedColumn(cells, i, rowSpans, hOptions),
                     text |-> cells[i].text, rowspan |-> cells[i].rowspan,
                     colspan |-> cells[i].colspan] : i \in 1..Len(cells)}
    /\ hReads' = hReads + 1
    /\ UNCHANGED <<hOptions, hCount, hPc, hBeforeSuffix, hError, hRun, hFirst, hGrid,
                   hCellDomain>>

\* one iteration of the for loop of getRows: processRow throws (a cell read or
\* parseSpanAttributes fails) and the catch throws the error of the row
HeaderRowFails ==
    /\ hPc = "rows"
    /\ Len(headerRows) < hCount
    /\ hReads' = hReads + 1
    /\ hError' = HeaderRowError(Len(headerRows))
    /\ hPc' = "threw"
    /\ UNCHANGED <<hOptions, hCount, headerRows, rowSpans, hCells, hPlaced, hBeforeSuffix,
                   hRun, hFirst, hGrid, hCellDomain>>

\* the end of getRows: applyColspanOptions, applyDuplicateSuffix, return
HeaderFinish ==
    /\ hPc = "rows"
    /\ Len(headerRows) = hCount
    /\ hBeforeSuffix' = applyColspanOptions(headerRows, hOptions)
    /\ headerRows' = applyDuplicateSuffix(applyColspanOptions(headerRows, hOptions), hOptions)
    /\ hPc' = "done"
    /\ UNCHANGED <<hOptions, hCount, rowSpans, hCells, hPlaced, hError, hReads, hRun,
                   hFirst, hGrid, hCellDomain>>

\* getRows is called again on the same page with the same options
HeaderAgain ==
    /\ hPc = "done"
    /\ hRun = 1
    /\ hRun' = 2
    /\ hFirst' = headerRows
    /\ hGrid' = hCells
    /\ headerRows' = << >>
    /\ rowSpans' = NewRowSpans(rowSpans)
    /\ hCells' = << >>
    /\ hPlaced' = {}
    /\ hBeforeSuffix' = << >>
    /\ hReads' = 0
    /\ hPc' = "rows"
    /\ UNCHANGED <<hOptions, hCount, hError, hCellDomain>>

(***************************************************************************)
(* TableBody (row-spanned values are stored per future row index).         *)
(***************************************************************************)
\* a hole of a sparse JavaScript array (reads undefined)
Undefined == <<"undefined">>

\* arr[index] = value on a JavaScript array (index is 0-based)
ArraySet(arr, index, value) ==
    [i \in 1..Max(Len(arr), index + 1) |->
        IF i = index + 1 THEN value
        ELSE IF i <= Len(arr) THEN arr[i] ELSE Undefined]

RECURSIVE ArrayFill(_, _, _, _)
ArrayFill(arr, from, count, value) ==
    IF count = 0 THEN arr
    ELSE ArrayFill(ArraySet(arr, from, value), from + 1, count - 1, value)

storeSpannedCells(rowIndex, colIndex, rowspan, content, spanned) ==
    [r \in (DOMAIN spanned) \cup ((rowIndex + 1)..(rowIndex + rowspan - 1)) |->
        IF r \in (rowIndex + 1)..(rowIndex + rowspan - 1)
        THEN MapSet(IF r \in DOMAIN spanned THEN spanned[r] ELSE EmptyMap, colIndex, content)
        ELSE spanned[r]]

\* st = [columns, spanned]
processCellData(cellData, colIndex, st, rowIndex) ==
    [columns |-> ArrayFill(st.columns, colIndex, cellData.colspan, cellData.content),
     spanned |-> IF cellData.rowspan > 1
                 THEN storeSpannedCells(rowIndex, colIndex, cellData.rowspan,
                                        cellData.content, st.spanned)
                 ELSE st.spanned]

RECURSIVE processBodyCells(_, _, _, _)
processBodyCells(cells, colIndex, st, rowIndex) ==
    IF colIndex >= Len(cells) THEN st
    ELSE processBodyCells(cells, colIndex + 1,
                          processCellData(cells[colIndex + 1], colIndex, st, rowIndex),
                          rowIndex)

RECURSIVE applySpannedCols(_, _)
applySpannedCols(row, columns) ==
    IF DOMAIN row = {} THEN columns
    ELSE LET c == CHOOSE x \in DOMAIN row : \A y \in DOMAIN row : x <= y
         IN applySpannedCols(MapDelete(row, c), ArraySet(columns, c, row[c]))

applySpannedCells(spanned, rowIndex, columns) ==
    IF rowIndex \in DOMAIN spanned
    THEN applySpannedCols(spanned[rowIndex], columns)
    ELSE columns

\* extractColumns: [columns, spanned, physical] for one body row
extractColumns(cells, rowIndex, spanned) ==
    IF Len(cells) = 0
    THEN [columns |-> << >>, spanned |-> spanned, physical |-> << >>]
    ELSE LET st == processBodyCells(cells, 0, [columns |-> << >>, spanned |-> spanned],
                                    rowIndex)
         IN [columns  |-> applySpannedCells(st.spanned, rowIndex, st.columns),
             spanned  |-> st.spanned,
             physical |-> st.columns]

BodyCell == [content : Texts, rowspan : 1..MaxRowSpan, colspan : 1..MaxColSpan]

\* the error of the catch in getRows, with a row index that is one too high
BodyRowError_NextIndex(rowIndex) ==
    [rowIndex |-> rowIndex + 1, locator |-> "rowLocator",
     selector |-> "columnsSelector", error |-> "cell error"]

\* the error of the catch in getRows
BodyRowError(rowIndex) ==
    [rowIndex |-> rowIndex, locator |-> "rowLocator",
     selector |-> "columnsSelector", error |-> "cell error"]

\* a store kept from one call of getRows to the next
NewSpannedCells_Kept(spanned) == spanned

\* const spannedCells = {} of a call of getRows
NewSpannedCells(spanned) == EmptyMap

BodyStart ==
    /\ bCount \in 0..MaxBodyRows
    /\ bodyRows = << >>
    /\ spannedCells = EmptyMap
    /\ bPc = "rows"
    /\ bCells = << >>
    /\ bPhysical = << >>
    /\ bError = NoRowError
    /\ bReads = 0
    /\ bRun = 1
    /\ bFirst = << >>
    /\ bGrid = << >>

\* the cells fetchCellData gives for the next row: any cells in the first call,
\* the same cells again in the second
BodyRowCells ==
    IF bRun = 1
    THEN UNION {[1..n -> BodyCell] : n \in 0..(MaxBodyCells - CellCount(bCells))}
    ELSE {bGrid[Len(bodyRows) + 1]}

\* one iteration of the for loop of getRows: extractColumns on the next row
BodyProcessRow ==
    /\ bPc = "rows"
    /\ Len(bodyRows) < bCount
    /\ \E cells \in BodyRowCells :
          LET res == extractColumns(cells, Len(bodyRows), spannedCells)
          IN /\ bodyRows' = Append(bodyRows, res.columns)
             /\ spannedCells' = res.spanned
             /\ bCells' = Append(bCells, cells)
             /\ bPhysical' = Append(bPhysical, res.physical)
    /\ bReads' = bReads + 1
    /\ UNCHANGED <<bCount, bPc, bError, bRun, bFirst, bGrid>>

\* one iteration of the for loop of getRows: extractColumns throws (a cell read or
\* parseSpanAttributes fails) and the catch throws the error of the row
BodyRowFails ==
    /\ bPc = "rows"
    /\ Len(bodyRows) < bCount
    /\ bReads' = bReads + 1
    /\ bError' = BodyRowError(Len(bodyRows))
    /\ bPc' = "threw"
    /\ UNCHANGED <<bCount, bodyRows, spannedCells, bCells, bPhysical, bRun, bFirst, bGrid>>

\* the end of getRows: return rows
BodyFinish ==
    /\ bPc = "rows"
    /\ Len(bodyRows) = bCount
    /\ bPc' = "done"
    /\ UNCHANGED <<bCount, bodyRows, spannedCells, bCells, bPhysical, bError, bReads, bRun,
                   bFirst, bGrid>>

\* getRows is called again on the same page
BodyAgain ==
    /\ bPc = "done"
    /\ bRun = 1
    /\ bRun' = 2
    /\ bFirst' = bodyRows
    /\ bGrid' = bCells
    /\ bodyRows' = << >>
    /\ spannedCells' = NewSpannedCells(spannedCells)
    /\ bCells' = << >>
    /\ bPhysical' = << >>
    /\ bReads' = 0
    /\ bPc' = "rows"
    /\ UNCHANGED <<bCount, bError>>

(***************************************************************************)
(* PlaywrightTable.waitForStable.  The clock is discrete: a materialization*)
(* takes no time and the sleep lasts exactly checkInterval.                *)
(***************************************************************************)
Sources == {"g1", "g2", "unloaded"}

TableLocator == "locator('table')"

StableOptions ==
    [stabilityDuration : 0..MaxStability, checkInterval : 1..MaxInterval,
     timeout : 0..MaxTimeout]

\* getTable followed by JSON.stringify: the snapshot, or "null" when getTable throws
NoLookupError == [message |-> "", header |-> << >>, index |-> 0]

LookupError(message) == [message |-> message, header |-> << >>, index |-> 0]

\* getTable without the check of the body rows
getTable_NoBodyCheck(tableHeaderRows, tableBodyRows) ==
    IF Len(tableHeaderRows) = 0 THEN LookupError("No header rows found")
    ELSE NoLookupError

\* the error getTable throws, NoLookupError when it returns the table
getTable(tableHeaderRows, tableBodyRows) ==
    IF Len(tableHeaderRows) = 0 THEN LookupError("No header rows found")
    ELSE IF Len(tableBodyRows) = 0 THEN LookupError("No body rows found")
    ELSE NoLookupError

\* the header rows and the body rows the materializers read from the page: one
\* header row and the grid the source names, no rows at all before the table is
\* loaded, or a table that lacks its header rows or its body rows
SourceTable(src) ==
    [headerRows |-> IF src \in {"unloaded", "noHeaderRows"} THEN << >> ELSE <<<<<<"A">>>>>>,
     bodyRows   |-> IF src \in {"unloaded", "noBodyRows"} THEN << >> ELSE <<<<<<src>>>>>>]

\* the snapshot, with a table that has header rows and no body rows taken as a grid
Materialize_EmptyBodyIsGrid(src) ==
    IF Len(SourceTable(src).headerRows) = 0 THEN "null" ELSE src

\* the snapshot of the try block, "null" when getTable throws
Materialize(src) ==
    IF getTable(SourceTable(src).headerRows, SourceTable(src).bodyRows) # NoLookupError
    THEN "null"
    ELSE src

\* StableCheck with the stability timer left running when the grid changed
StableCheck_NoReset(st, src, t, stabilityDuration) ==
    LET currentSnapshot == Materialize(src)
    IN IF currentSnapshot = "null"
       THEN [lastSnapshot |-> "null", stableStartTime |-> -1, done |-> FALSE]
       ELSE IF st.lastSnapshot = "null"
       THEN [lastSnapshot |-> currentSnapshot, stableStartTime |-> t, done |-> FALSE]
       ELSE IF currentSnapshot = st.lastSnapshot
       THEN [lastSnapshot |-> st.lastSnapshot, stableStartTime |-> st.stableStartTime,
             done |-> (t - (IF st.stableStartTime = -1 THEN t ELSE st.stableStartTime)
                          >= stabilityDuration)]
       ELSE [lastSnapshot |-> currentSnapshot, stableStartTime |-> st.stableStartTime,
             done |-> FALSE]

\* StableCheck with the stability timer restarted at every unchanged tick
StableCheck_AlwaysReset(st, src, t, stabilityDuration) ==
    LET currentSnapshot == Materialize(src)
    IN IF currentSnapshot = "null"
       THEN [lastSnapshot |-> "null", stableStartTime |-> -1, done |-> FALSE]
       ELSE IF st.lastSnapshot = "null"
       THEN [lastSnapshot |-> currentSnapshot, stableStartTime |-> t, done |-> FALSE]
       ELSE IF currentSnapshot = st.lastSnapshot
       THEN [lastSnapshot |-> st.lastSnapshot, stableStartTime |-> t,
             done |-> (t - t >= stabilityDuration)]
       ELSE [lastSnapshot |-> currentSnapshot, stableStartTime |-> t, done |-> FALSE]

\* StableCheck that returns at the first unchanged tick, whatever the duration
StableCheck_NoDuration(st, src, t, stabilityDuration) ==
    LET currentSnapshot == Materialize(src)
    IN IF currentSnapshot = "null"
       THEN [lastSnapshot |-> "null", stableStartTime |-> -1, done |-> FALSE]
       ELSE IF st.lastSnapshot = "null"
       THEN [lastSnapshot |-> currentSnapshot, stableStartTime |-> t, done |-> FALSE]
       ELSE IF currentSnapshot = st.lastSnapshot
       THEN [lastSnapshot |-> st.lastSnapshot, stableStartTime |-> st.stableStartTime,
             done |-> TRUE]
       ELSE [lastSnapshot |-> currentSnapshot, stableStartTime |-> t, done |-> FALSE]

\* StableCheck with the snapshot and the stability timer kept when getTable throws
StableCheck_KeepOnFailure(st, src, t, stabilityDuration) ==
    LET currentSnapshot == Materialize(src)
    IN IF currentSnapshot = "null"
       THEN [lastSnapshot |-> st.lastSnapshot, stableStartTime |-> st.stableStartTime,
             done |-> FALSE]
       ELSE IF st.lastSnapshot = "null"
       THEN [lastSnapshot |-> currentSnapshot, stableStartTime |-> t, done |-> FALSE]
       ELSE IF currentSnapshot = st.lastSnapshot
       THEN [lastSnapshot |-> st.lastSnapshot, stableStartTime |-> st.stableStartTime,
             done |-> (t - (IF st.stableStartTime = -1 THEN t ELSE st.stableStartTime)
                          >= stabilityDuration)]
       ELSE [lastSnapshot |-> currentSnapshot, stableStartTime |-> t, done |-> FALSE]

\* the body of the while loop up to the sleep:
\* st = [lastSnapshot, stableStartTime], result [lastSnapshot, stableStartTime, done]
StableCheck(st, src, t, stabilityDuration) ==
    LET currentSnapshot == Materialize(src)
    IN IF currentSnapshot = "null"
       THEN [lastSnapshot |-> "null", stableStartTime |-> -1, done |-> FALSE]
       ELSE IF st.lastSnapshot = "null"
       THEN [lastSnapshot |-> currentSnapshot, stableStartTime |-> t, done |-> FALSE]
       ELSE IF currentSnapshot = st.lastSnapshot
       THEN [lastSnapshot |-> st.lastSnapshot, stableStartTime |-> st.stableStartTime,
             done |-> (t - (IF st.stableStartTime = -1 THEN t ELSE st.stableStartTime)
                          >= stabilityDuration)]
       ELSE [lastSnapshot |-> currentSnapshot, stableStartTime |-> t, done |-> FALSE]

StableTimeoutError(options) ==
    [timeout |-> options.timeout, stabilityDuration |-> options.stabilityDuration,
     locator |-> TableLocator]

NoError == [timeout |-> -1, stabilityDuration |-> -1, locator |-> ""]

StableStart ==
    /\ now = 0
    /\ source \in Sources
    /\ wOptions \in StableOptions
    /\ wPc = "loop"
    /\ startTime = 0
    /\ lastSnapshot = "null"
    /\ stableStartTime = -1
    /\ wakeAt = 0
    /\ wError = NoError
    /\ frozen = FALSE
    /\ lastMutation = -1
    /\ dirty = FALSE
    /\ obsMutation = -1
    /\ gTicks = 0
    /\ gLastTick = -1
    /\ gSample = "null"
    /\ gSince = -1
    /\ gQuiet = 0

\* one pass of the while loop: the condition holds, getTable, compare, sleep
StableTick ==
    /\ wPc = "loop"
    /\ now - startTime < wOptions.timeout
    /\ LET res == StableCheck([lastSnapshot |-> lastSnapshot,
                               stableStartTime |-> stableStartTime],
                              source, now, wOptions.stabilityDuration)
           cur == Materialize(source)
       IN /\ lastSnapshot' = res.lastSnapshot
          /\ stableStartTime' = res.stableStartTime
          /\ wPc' = IF res.done THEN "returned" ELSE "sleep"
          /\ wakeAt' = IF res.done THEN wakeAt ELSE now + wOptions.checkInterval
          /\ obsMutation' = IF dirty /\ cur # lastSnapshot THEN lastMutation
                            ELSE obsMutation
          /\ gSince' = IF cur # "null" /\ cur = gSample THEN gSince ELSE now
          /\ gSample' = cur
    /\ dirty' = FALSE
    /\ gTicks' = gTicks + 1
    /\ gLastTick' = now
    /\ UNCHANGED <<now, source, wOptions, startTime, wError, frozen, lastMutation, gQuiet>>

\* the while condition fails: throw "Table did not stabilize within ..."
StableTimeout ==
    /\ wPc = "loop"
    /\ ~(now - startTime < wOptions.timeout)
    /\ wPc' = "threw"
    /\ wError' = StableTimeoutError(wOptions)
    /\ UNCHANGED <<now, source, wOptions, startTime, lastSnapshot, stableStartTime, wakeAt,
                   frozen, lastMutation, dirty, obsMutation, gTicks, gLastTick, gSample,
                   gSince, gQuiet>>

\* the setTimeout of the sleep fires
StableWake ==
    /\ wPc = "sleep"
    /\ now = wakeAt
    /\ wPc' = "loop"
    /\ UNCHANGED <<now, source, wOptions, startTime, lastSnapshot, stableStartTime, wakeAt,
                   wError, frozen, lastMutation, dirty, obsMutation, gTicks, gLastTick,
                   gSample, gSince, gQuiet>>

\* time passes while the wait sleeps
StableTimePasses ==
    /\ wPc = "sleep"
    /\ now < wakeAt
    /\ now' = now + 1
    /\ gQuiet' = Max(gQuiet, now + 1 - Max(lastMutation, startTime))
    /\ UNCHANGED <<source, wOptions, wPc, startTime, lastSnapshot, stableStartTime, wakeAt,
                   wError, frozen, lastMutation, dirty, obsMutation, gTicks, gLastTick,
                   gSample, gSince>>

\* the page changes: another grid, or it stops or starts being extractable
PageMutates ==
    /\ wPc \in {"loop", "sleep"}
    /\ ~frozen
    /\ \E s \in Sources \ {source} : source' = s
    /\ lastMutation' = now
    /\ dirty' = TRUE
    /\ UNCHANGED <<now, wOptions, wPc, startTime, lastSnapshot, stableStartTime, wakeAt,
                   wError, frozen, obsMutation, gTicks, gLastTick, gSample, gSince, gQuiet>>

\* the page stops mutating for good
PageSettles ==
    /\ wPc \in {"loop", "sleep"}
    /\ ~frozen
    /\ frozen' = TRUE
    /\ UNCHANGED <<now, source, wOptions, wPc, startTime, lastSnapshot, stableStartTime,
                   wakeAt, wError, lastMutation, dirty, obsMutation, gTicks, gLastTick,
                   gSample, gSince, gQuiet>>

(***************************************************************************)
(* toPassWithErrorContext: expect(...).toPass polls the wrapped check      *)
(* against a deadline; the wrapper prefixes the check's message and strips *)
(* the "Call Log" that toPass appends on timeout.                          *)
(***************************************************************************)
NoResult == <<"undefined">>

CallLog == "\n\nCall Log:"

\* the message of the error the check throws at its i-th invocation
CheckMessage(i) == <<"failure ", NumStr(i)>>

\* the prefix without the context
InnerMessage_NoContext(context, message) == <<"\n">> \o message

\* the prefix alone, without e.message
InnerMessage_Dropped(context, message) ==
    IF context # "" THEN <<"\n[Context: ", context, "]\n">> ELSE <<"\n">>

\* the catch around fn(): prefix + e.message
InnerMessage(context, message) ==
    (IF context # "" THEN <<"\n[Context: ", context, "]\n">> ELSE <<"\n">>) \o message

TimeoutMessage(timeout) ==
    <<"Timeout ", NumStr(timeout), "ms exceeded while waiting on the predicate">>

\* toPass, timed out: the last failure with the call log, or the bare timeout message
ToPassMessage(result, timeout) ==
    IF result # NoResult
    THEN result \o <<CallLog, "\n- ">> \o TimeoutMessage(timeout)
    ELSE TimeoutMessage(timeout)

\* e.message.indexOf("\n\nCall Log:"), in tokens (0: absent)
CallLogIndex(message) ==
    IF \E i \in 1..Len(message) : message[i] = CallLog
    THEN CHOOSE i \in 1..Len(message) :
             message[i] = CallLog /\ \A j \in 1..(i - 1) : message[j] # CallLog
    ELSE 0

\* the error of toPass as it is
StripCallLog_Kept(message) == message

\* the outer catch: the message up to the call log, or the error as it is
StripCallLog(message) ==
    IF CallLogIndex(message) > 1
    THEN SubSeq(message, 1, CallLogIndex(message) - 1)
    ELSE message

Raised(result, timeout) == StripCallLog(ToPassMessage(result, timeout))

\* fn(): fails at its i-th invocation
CheckFails(i, always, failures) == always \/ i <= failures

\* polling on whatever the invocation did
ContinuePolling_Always(failed) == TRUE

\* toPass: continuePolling after a settled invocation
ContinuePolling(failed) == failed

\* pollIntervals.shift() ?? lastPollInterval, after the pop() of the last one
NextInterval(intervals) == intervals[1]

RestIntervals(intervals) == IF Len(intervals) > 1 THEN Tail(intervals) ELSE intervals

PollOptions ==
    [timeout : 1..MaxPollTimeout, intervals : {<<1>>, <<2>>, <<1, 2>>}, context : {"", "ctx"}]

PollStart ==
    /\ time = 0
    /\ pOptions \in PollOptions
    /\ pFailures \in 0..MaxFails
    /\ pAlways \in BOOLEAN
    /\ pPc = "invoke"
    /\ deadline = pOptions.timeout
    /\ pollIntervals = pOptions.intervals
    /\ lastResult = NoResult
    /\ attempts = 0
    /\ succeeded = 0
    /\ settleAt = 0
    /\ pWakeAt = 0
    /\ pMessage = << >>
    /\ pCut = FALSE
    /\ pLastFail = [message |-> << >>, at |-> -1, interval |-> 0]
    /\ pWaits = << >>
    /\ pInFlight = 0

\* the polling loop starts an invocation only at its top, after the await of the
\* previous invocation and the await of the sleep
CanInvoke_Overlapping(pc) == pc \in {"invoke", "running"}

CanInvoke(pc) == pc = "invoke"

\* top of the polling loop: the deadline has passed, or the check is invoked
PollInvoke ==
    /\ CanInvoke(pPc)
    /\ IF time >= deadline
       THEN /\ pPc' = "threw"
            /\ pMessage' = Raised(lastResult, pOptions.timeout)
            /\ UNCHANGED <<attempts, settleAt, pInFlight>>
       ELSE /\ pPc' = "running"
            /\ attempts' = attempts + 1
            /\ pInFlight' = pInFlight + 1
            /\ \E d \in 0..MaxCheckTime : settleAt' = time + d
            /\ UNCHANGED pMessage
    /\ UNCHANGED <<time, pOptions, pFailures, pAlways, deadline, pollIntervals, lastResult,
                   succeeded, pWakeAt, pCut, pLastFail, pWaits>>

\* the invocation in flight fails before the deadline timer fires
PollCheckFails ==
    /\ pPc = "running"
    /\ time = settleAt
    /\ time <= deadline
    /\ pInFlight' = pInFlight - 1
    /\ CheckFails(attempts, pAlways, pFailures)
    /\ lastResult' = InnerMessage(pOptions.context, CheckMessage(attempts))
    /\ pLastFail' = [message |-> CheckMessage(attempts), at |-> time,
                     interval |-> NextInterval(pollIntervals)]
    /\ pollIntervals' = RestIntervals(pollIntervals)
    /\ IF ~ContinuePolling(TRUE)
       THEN /\ pPc' = "returned"
            /\ UNCHANGED <<pMessage, pWakeAt, pWaits>>
       ELSE IF deadline <= time + NextInterval(pollIntervals)
       THEN /\ pPc' = "threw"
            /\ pMessage' = Raised(lastResult', pOptions.timeout)
            /\ UNCHANGED <<pWakeAt, pWaits>>
       ELSE /\ pPc' = "sleep"
            /\ pWakeAt' = time + NextInterval(pollIntervals)
            /\ pWaits' = Append(pWaits, [interval |-> NextInterval(pollIntervals),
                                         from |-> time,
                                         to |-> time + NextInterval(pollIntervals)])
            /\ UNCHANGED pMessage
    /\ UNCHANGED <<time, pOptions, pFailures, pAlways, deadline, attempts, succeeded,
                   settleAt, pCut>>

\* the invocation in flight completes without failing before the deadline timer fires
PollCheckPasses ==
    /\ pPc = "running"
    /\ time = settleAt
    /\ time <= deadline
    /\ pInFlight' = pInFlight - 1
    /\ ~CheckFails(attempts, pAlways, pFailures)
    /\ succeeded' = succeeded + 1
    /\ lastResult' = NoResult
    /\ IF ~ContinuePolling(FALSE)
       THEN /\ pPc' = "returned"
            /\ UNCHANGED <<pMessage, pWakeAt, pWaits, pollIntervals>>
       ELSE IF deadline <= time + NextInterval(pollIntervals)
       THEN /\ pPc' = "threw"
            /\ pMessage' = Raised(lastResult', pOptions.timeout)
            /\ pollIntervals' = RestIntervals(pollIntervals)
            /\ UNCHANGED <<pWakeAt, pWaits>>
       ELSE /\ pPc' = "sleep"
            /\ pWakeAt' = time + NextInterval(pollIntervals)
            /\ pollIntervals' = RestIntervals(pollIntervals)
            /\ pWaits' = Append(pWaits, [interval |-> NextInterval(pollIntervals),
                                         from |-> time,
                                         to |-> time + NextInterval(pollIntervals)])
            /\ UNCHANGED pMessage
    /\ UNCHANGED <<time, pOptions, pFailures, pAlways, deadline, attempts, settleAt, pCut,
                   pLastFail>>

\* the deadline timer fires and the poll goes on to another invocation
PollDeadline_Continues ==
    /\ pPc = "running"
    /\ time = deadline
    /\ pPc' = "invoke"
    /\ pCut' = TRUE
    /\ deadline' = deadline + 1
    /\ UNCHANGED <<time, pOptions, pFailures, pAlways, pollIntervals, lastResult, pMessage,
                   attempts, succeeded, settleAt, pWakeAt, pLastFail, pWaits, pInFlight>>

\* the deadline timer fires with the invocation still in flight: timed out
PollDeadline ==
    /\ pPc = "running"
    /\ time = deadline
    /\ pPc' = "threw"
    /\ pCut' = TRUE
    /\ pMessage' = Raised(lastResult, pOptions.timeout)
    /\ UNCHANGED <<time, pOptions, pFailures, pAlways, deadline, pollIntervals, lastResult,
                   attempts, succeeded, settleAt, pWakeAt, pLastFail, pWaits, pInFlight>>

\* the invocation that was in flight at the deadline settles, passing or failing,
\* after toPass has thrown: nothing awaits it; the clock of the poll is not read
PollLateSettles ==
    /\ pPc = "threw"
    /\ pCut
    /\ pInFlight = 1
    /\ pInFlight' = 0
    /\ UNCHANGED <<time, pOptions, pFailures, pAlways, pPc, deadline, pollIntervals,
                   lastResult, attempts, succeeded, settleAt, pWakeAt, pMessage, pCut,
                   pLastFail, pWaits>>

\* the setTimeout of the interval fires
PollWake ==
    /\ pPc = "sleep"
    /\ time = pWakeAt
    /\ pPc' = "invoke"
    /\ UNCHANGED <<time, pOptions, pFailures, pAlways, deadline, pollIntervals, lastResult,
                   attempts, succeeded, settleAt, pWakeAt, pMessage, pCut, pLastFail,
                   pWaits, pInFlight>>

\* time passes while the check runs or the poll sleeps
PollTimePasses ==
    /\ \/ pPc = "running" /\ time < settleAt /\ time < deadline
       \/ pPc = "sleep" /\ time < pWakeAt
    /\ time' = time + 1
    /\ UNCHANGED <<pOptions, pFailures, pAlways, pPc, deadline, pollIntervals, lastResult,
                   attempts, succeeded, settleAt, pWakeAt, pMessage, pCut, pLastFail,
                   pWaits, pInFlight>>

PollIdle ==
    /\ time = 0
    /\ pOptions = [timeout |-> 1, intervals |-> <<1>>, context |-> ""]
    /\ pFailures = 0 /\ pAlways = FALSE /\ pPc = "idle" /\ deadline = 0
    /\ pollIntervals = <<1>> /\ lastResult = NoResult /\ attempts = 0 /\ succeeded = 0
    /\ settleAt = 0 /\ pWakeAt = 0 /\ pMessage = << >> /\ pCut = FALSE
    /\ pLastFail = [message |-> << >>, at |-> -1, interval |-> 0] /\ pWaits = << >>
    /\ pInFlight = 0

\* the component is not running in this specification
StableIdle ==
    /\ now = 0 /\ source = "unloaded"
    /\ wOptions = [stabilityDuration |-> 0, checkInterval |-> 1, timeout |-> 0]
    /\ wPc = "idle" /\ startTime = 0 /\ lastSnapshot = "null" /\ stableStartTime = -1
    /\ wakeAt = 0 /\ wError = NoError /\ frozen = FALSE /\ lastMutation = -1
    /\ dirty = FALSE /\ obsMutation = -1 /\ gTicks = 0 /\ gLastTick = -1
    /\ gSample = "null" /\ gSince = -1 /\ gQuiet = 0

HeaderIdle ==
    /\ hOptions = [emptyCellReplacement |-> FALSE, duplicateSuffix |-> FALSE,
                   colspan |-> [enabled |-> FALSE, suffix |-> FALSE]]
    /\ hCount = 0 /\ headerRows = << >> /\ rowSpans = EmptyMap /\ hPc = "idle"
    /\ hCells = << >> /\ hPlaced = {} /\ hBeforeSuffix = << >> /\ hError = NoRowError
    /\ hReads = 0 /\ hRun = 0 /\ hFirst = << >> /\ hGrid = << >> /\ hCellDomain = {}

BodyIdle ==
    /\ bCount = 0 /\ bodyRows = << >> /\ spannedCells = EmptyMap /\ bPc = "idle"
    /\ bCells = << >> /\ bPhysical = << >> /\ bError = NoRowError /\ bReads = 0
    /\ bRun = 0 /\ bFirst = << >> /\ bGrid = << >>

(***************************************************************************)
(* Span attributes: TableUtils.parseSpanAttributes.  An attribute value is  *)
(* a sequence of characters; getAttribute gives null for an absent one.     *)
(***************************************************************************)
NullAttr == <<"null">>

SpanAttrs ==
    { NullAttr, << >>, <<"0">>, <<"1">>, <<"2">>, <<"1", "0">>, <<"-", "5">>,
      <<"i", "n", "v", "a", "l", "i", "d">>, <<"2", "x">>, <<"1", ".", "5">>,
      <<" ", "2">> }

DigitValue(c) ==
    CASE c = "0" -> 0 [] c = "1" -> 1 [] c = "2" -> 2 [] c = "3" -> 3 [] c = "4" -> 4
      [] c = "5" -> 5 [] c = "6" -> 6 [] c = "7" -> 7 [] c = "8" -> 8 [] c = "9" -> 9

NaN == [nan |-> TRUE, value |-> 0]

Number(n) == [nan |-> FALSE, value |-> n]

RECURSIVE SkipWhiteSpace(_)
SkipWhiteSpace(s) ==
    IF s # << >> /\ Head(s) = " " THEN SkipWhiteSpace(Tail(s)) ELSE s

RECURSIVE DigitPrefix(_)
DigitPrefix(s) ==
    IF s # << >> /\ Head(s) \in Digits THEN <<Head(s)>> \o DigitPrefix(Tail(s)) ELSE << >>

RECURSIVE DecimalValue(_)
DecimalValue(d) ==
    IF d = << >> THEN 0
    ELSE 10 * DecimalValue(SubSeq(d, 1, Len(d) - 1)) + DigitValue(d[Len(d)])

\* parseInt(s, 10): leading white space, an optional sign, then the longest
\* run of digits; NaN when there is no digit.
parseInt(s) ==
    LET t == SkipWhiteSpace(s)
        signed == t # << >> /\ Head(t) \in {"-", "+"}
        negative == t # << >> /\ Head(t) = "-"
        d == DigitPrefix(IF signed THEN Tail(t) ELSE t)
    IN  IF d = << >> THEN NaN
        ELSE Number(IF negative THEN 0 - DecimalValue(d) ELSE DecimalValue(d))

\* attr || "1": null and the empty string are both falsy.
OrOne(attr) == IF attr = NullAttr \/ attr = << >> THEN <<"1">> ELSE attr

\* isNaN(n) || n < 1
InvalidSpan(n) == n.nan \/ n.value < 1

NoSpanError == [attribute |-> "none", raw |-> NullAttr]

\* `Invalid <attribute> attribute: "<raw>". Expected positive integer.`
SpanError(attribute, raw) == [attribute |-> attribute, raw |-> raw]

NoSpans == [rowspan |-> 0, colspan |-> 0]

SpanStart ==
    /\ rowspanAttr \in SpanAttrs
    /\ colspanAttr \in SpanAttrs
    /\ sPc = "call"
    /\ sResult = NoSpans
    /\ sError = NoSpanError

SpanIdle ==
    /\ rowspanAttr = NullAttr /\ colspanAttr = NullAttr /\ sPc = "idle"
    /\ sResult = NoSpans /\ sError = NoSpanError

parseSpanAttributes ==
    /\ sPc = "call"
    /\ LET rowspan == parseInt(OrOne(rowspanAttr))
           colspan == parseInt(OrOne(colspanAttr))
       IN  IF InvalidSpan(rowspan)
           THEN /\ sPc' = "threw"
                /\ sError' = SpanError("rowspan", rowspanAttr)
                /\ UNCHANGED sResult
           ELSE IF InvalidSpan(colspan)
           THEN /\ sPc' = "threw"
                /\ sError' = SpanError("colspan", colspanAttr)
                /\ UNCHANGED sResult
           ELSE /\ sPc' = "returned"
                /\ sResult' = [rowspan |-> rowspan.value, colspan |-> colspan.value]
                /\ UNCHANGED sError
    /\ UNCHANGED <<rowspanAttr, colspanAttr>>

(***************************************************************************)
(* PlaywrightTable.getBodyCellLocatorByRowConditions, with getTable and     *)
(* mainHeaderRow.  Indexes are those of the code (from 0).                  *)
(***************************************************************************)
LookupValues == {<< >>, <<"A">>}

\* rows of at most MaxLookupCells cells
LookupRows(cells) == UNION {[1..n -> cells] : n \in 0..MaxLookupCells}

\* Object.entries of an object: the keys are distinct
LookupConditions ==
    {c \in UNION {[1..n -> [header : Texts, value : LookupValues]] : n \in 0..MaxConditions} :
        \A i, j \in 1..Len(c) : i # j => c[i].header # c[j].header}

NoLocator == [row |-> -1, cell |-> -1]

\* `Header "${header}" not found.`
HeaderNotFound(header) == [message |-> "Header not found", header |-> header, index |-> 0]

\* Array.prototype.indexOf
indexOf(array, x) ==
    IF \E i \in 1..Len(array) : array[i] = x
    THEN (CHOOSE i \in 1..Len(array) : array[i] = x /\ \A j \in 1..(i - 1) : array[j] # x) - 1
    ELSE -1

\* this._options?.header?.setMainHeaderRow ?? headers.length - 1
mainHeaderIndex(headers, setMain) ==
    IF setMain = << >> THEN Len(headers) - 1 ELSE setMain[1]

\* the error mainHeaderRow throws, NoLookupError when it returns a row
mainHeaderRowError(headers, setMain) ==
    IF Len(headers) = 0 THEN LookupError("No header rows available")
    ELSE IF mainHeaderIndex(headers, setMain) < 0
            \/ mainHeaderIndex(headers, setMain) >= Len(headers)
         THEN [message |-> "Header row index out of bounds", header |-> << >>,
               index |-> mainHeaderIndex(headers, setMain)]
         ELSE NoLookupError

mainHeaderRow(headers, setMain) == headers[mainHeaderIndex(headers, setMain) + 1]

\* row[headerIndex] read as the text "undefined" when the row has no such cell
CellValue_Undefined(row, headerIndex) ==
    IF headerIndex >= 0 /\ headerIndex < Len(row) THEN row[headerIndex + 1]
    ELSE <<"undefined">>

\* row[headerIndex] ?? ""
CellValue(row, headerIndex) ==
    IF headerIndex >= 0 /\ headerIndex < Len(row) THEN row[headerIndex + 1] ELSE << >>

\* the loop over Object.entries(conditions) for one row: "match", "mismatch"
\* (the break), or "threw" with the header that indexOf did not find
RECURSIVE CheckConditions(_, _, _)
CheckConditions(row, mainHeader, conditions) ==
    IF conditions = << >> THEN [outcome |-> "match", header |-> << >>]
    ELSE LET header == Head(conditions).header
             headerIndex == indexOf(mainHeader, header)
         IN  IF headerIndex = -1 THEN [outcome |-> "threw", header |-> header]
             ELSE IF CellValue(row, headerIndex) # Head(conditions).value
                  THEN [outcome |-> "mismatch", header |-> << >>]
                  ELSE CheckConditions(row, mainHeader, Tail(conditions))

\* this._bodyRowLocator.nth(rowNumber).locator(selector).nth(headerPosition)
getBodyCellLocator(rowNumber, headerPosition) ==
    [row |-> rowNumber, cell |-> headerPosition]

\* the element that bodyRowLocator.nth(row).locator(columnSelector).nth(cell)
\* resolves to on a page whose body rows hold the cells rowsOfCells: the cell at
\* that physical position of that row, or no element
LocatedCell(rowsOfCells, locator) ==
    IF /\ locator.row >= 0 /\ locator.row < Len(rowsOfCells)
       /\ locator.cell >= 0 /\ locator.cell < Len(rowsOfCells[locator.row + 1])
    THEN <<rowsOfCells[locator.row + 1][locator.cell + 1]>>
    ELSE << >>

\* the loop over table.bodyRows from rowIndex on, and the throw after it
RECURSIVE ScanRows(_, _, _, _, _)
ScanRows(tableBodyRows, rowIndex, mainHeader, conditions, targetHeaderIndex) ==
    IF rowIndex >= Len(tableBodyRows)
    THEN [pc |-> "threw", locator |-> NoLocator,
          error |-> LookupError("No row found matching conditions")]
    ELSE LET check == CheckConditions(tableBodyRows[rowIndex + 1], mainHeader, conditions)
         IN  IF check.outcome = "threw"
             THEN [pc |-> "threw", locator |-> NoLocator,
                   error |-> HeaderNotFound(check.header)]
             ELSE IF check.outcome = "match"
                  THEN [pc |-> "returned",
                        locator |-> getBodyCellLocator(rowIndex, targetHeaderIndex),
                        error |-> NoLookupError]
                  ELSE ScanRows(tableBodyRows, rowIndex + 1, mainHeader, conditions,
                                targetHeaderIndex)

LookupThrows(error) == [pc |-> "threw", locator |-> NoLocator, error |-> error]

getBodyCellLocatorByRowConditionsResult(headers, rows, setMain, conditions, target) ==
    IF getTable(headers, rows) # NoLookupError
    THEN LookupThrows(getTable(headers, rows))
    ELSE IF mainHeaderRowError(headers, setMain) # NoLookupError
    THEN LookupThrows(mainHeaderRowError(headers, setMain))
    ELSE LET mainHeader == mainHeaderRow(headers, setMain)
             targetHeaderIndex == indexOf(mainHeader, target)
         IN  IF targetHeaderIndex = -1
             THEN LookupThrows(HeaderNotFound(target))
             ELSE ScanRows(rows, 0, mainHeader, conditions, targetHeaderIndex)

LookupStart ==
    /\ lHeaderRows \in UNION {[1..n -> LookupRows(Texts)] : n \in 0..MaxLookupHeaderRows}
    /\ lBodyRows \in UNION {[1..n -> LookupRows(LookupValues)] : n \in 0..MaxLookupBodyRows}
    /\ setMainHeaderRow \in {<< >>} \cup {<<i>> : i \in -1..MaxLookupHeaderRows}
    /\ lConditions \in LookupConditions
    /\ lTarget \in Texts
    /\ lPc = "call"
    /\ lLocator = NoLocator
    /\ lError = NoLookupError
    /\ lOp = "getBodyCellLocatorByRowConditions"
    /\ lReturn = << >>

LookupIdle ==
    /\ lHeaderRows = << >> /\ lBodyRows = << >> /\ setMainHeaderRow = << >>
    /\ lConditions = << >> /\ lTarget = << >> /\ lPc = "idle"
    /\ lLocator = NoLocator /\ lError = NoLookupError /\ lOp = "none" /\ lReturn = << >>

getBodyCellLocatorByRowConditions ==
    /\ lPc = "call"
    /\ lOp = "getBodyCellLocatorByRowConditions"
    /\ LET res == getBodyCellLocatorByRowConditionsResult(lHeaderRows, lBodyRows,
                      setMainHeaderRow, lConditions, lTarget)
       IN  /\ lPc' = res.pc
           /\ lLocator' = res.locator
           /\ lError' = res.error
    /\ UNCHANGED <<lHeaderRows, lBodyRows, setMainHeaderRow, lConditions, lTarget, lOp,
                   lReturn>>

\* a call of an accessor of PlaywrightTable that returns rows, or of
\* mainHeaderRow as the earlier PlaywrightTable (table-header-indexer.ts) has it
AccessStart ==
    /\ lHeaderRows \in UNION {[1..n -> LookupRows(Texts)] : n \in 0..MaxLookupHeaderRows}
    /\ lBodyRows \in UNION {[1..n -> LookupRows(LookupValues)] : n \in 0..MaxLookupBodyRows}
    /\ setMainHeaderRow \in {<< >>} \cup {<<i>> : i \in -1..MaxLookupHeaderRows}
    /\ lConditions = << >>
    /\ lTarget = <<"A">>
    /\ lPc = "call"
    /\ lLocator = NoLocator
    /\ lError = NoLookupError
    /\ lOp \in {"getHeaderRows", "getMainHeaderRow", "getBodyRows", "getJson",
                "getBodyCellLocatorByRowConditions", "indexer.mainHeaderRow"}
    /\ lReturn = << >>

\* an accessor ends: it throws error, or returns value
AccessEnds(error, value) ==
    /\ lPc' = IF error # NoLookupError THEN "threw" ELSE "returned"
    /\ lError' = error
    /\ lReturn' = IF error # NoLookupError THEN << >> ELSE value
    /\ UNCHANGED <<lHeaderRows, lBodyRows, setMainHeaderRow, lConditions, lTarget, lLocator,
                   lOp>>

getHeaderRows ==
    /\ lPc = "call"
    /\ lOp = "getHeaderRows"
    /\ AccessEnds(getTable(lHeaderRows, lBodyRows), lHeaderRows)

getBodyRows ==
    /\ lPc = "call"
    /\ lOp = "getBodyRows"
    /\ AccessEnds(getTable(lHeaderRows, lBodyRows), lBodyRows)

getMainHeaderRow ==
    /\ lPc = "call"
    /\ lOp = "getMainHeaderRow"
    /\ IF getTable(lHeaderRows, lBodyRows) # NoLookupError
       THEN AccessEnds(getTable(lHeaderRows, lBodyRows), << >>)
       ELSE IF mainHeaderRowError(lHeaderRows, setMainHeaderRow) # NoLookupError
       THEN AccessEnds(mainHeaderRowError(lHeaderRows, setMainHeaderRow), << >>)
       ELSE AccessEnds(NoLookupError, mainHeaderRow(lHeaderRows, setMainHeaderRow))

\* rowObj[header] = row[index] || "" for each header in turn: the last column
\* of a name gives the value of the key
JsonRow(headers, row) ==
    [header \in {headers[i] : i \in 1..Len(headers)} |->
        LET index == CHOOSE i \in 1..Len(headers) :
                         headers[i] = header /\ \A j \in (i + 1)..Len(headers) : headers[j] # header
        IN  CellValue(row, index - 1)]

getJson ==
    /\ lPc = "call"
    /\ lOp = "getJson"
    /\ IF getTable(lHeaderRows, lBodyRows) # NoLookupError
       THEN AccessEnds(getTable(lHeaderRows, lBodyRows), << >>)
       ELSE IF mainHeaderRowError(lHeaderRows, setMainHeaderRow) # NoLookupError
       THEN AccessEnds(mainHeaderRowError(lHeaderRows, setMainHeaderRow), << >>)
       ELSE AccessEnds(NoLookupError,
                [r \in 1..Len(lBodyRows) |->
                    JsonRow(mainHeaderRow(lHeaderRows, setMainHeaderRow), lBodyRows[r])])

\* setMainHeaderRow ? this._headers[setMainHeaderRow] : this._headers[length - 1];
\* reading past the ends of the array gives undefined
IndexerMainHeaderRow(headers, setMain) ==
    LET index == IF setMain # << >> /\ setMain[1] # 0 THEN setMain[1] ELSE Len(headers) - 1
    IN  IF index >= 0 /\ index < Len(headers) THEN headers[index + 1] ELSE <<<<"undefined">>>>

indexerMainHeaderRow ==
    /\ lPc = "call"
    /\ lOp = "indexer.mainHeaderRow"
    /\ AccessEnds(NoLookupError, IndexerMainHeaderRow(lHeaderRows, setMainHeaderRow))

(***************************************************************************)
(* castContent, the scalar cast of a cell's text (a sequence of characters). *)
(***************************************************************************)
\* String.prototype.trim
Trim(s) ==
    LET RECURSIVE TrimEnd(_)
        TrimEnd(t) ==
            IF t # << >> /\ t[Len(t)] = " " THEN TrimEnd(SubSeq(t, 1, Len(t) - 1)) ELSE t
    IN  TrimEnd(SkipWhiteSpace(s))

\* String.prototype.toLowerCase on the letters that occur
toLowerCase(s) ==
    [i \in 1..Len(s) |->
        CASE s[i] = "T" -> "t" [] s[i] = "R" -> "r" [] s[i] = "U" -> "u" [] s[i] = "E" -> "e"
          [] s[i] = "F" -> "f" [] s[i] = "A" -> "a" [] s[i] = "L" -> "l" [] s[i] = "S" -> "s"
          [] OTHER -> s[i]]

\* Number(value) of a string: white space around is dropped, the empty string
\* is 0, else an optional sign and digits with an optional decimal point
StringToNumber(value) ==
    LET t == Trim(value)
        signed == t # << >> /\ Head(t) \in {"-", "+"}
        u == IF signed THEN Tail(t) ELSE t
        whole == DigitPrefix(u)
        rest == SubSeq(u, Len(whole) + 1, Len(u))
        point == rest # << >> /\ Head(rest) = "."
        fraction == IF point THEN DigitPrefix(Tail(rest)) ELSE << >>
        after == IF point THEN SubSeq(rest, Len(fraction) + 2, Len(rest)) ELSE rest
    IN  IF t = << >>
        THEN [nan |-> FALSE, negative |-> FALSE, whole |-> 0, fraction |-> << >>]
        ELSE IF after # << >> \/ (whole = << >> /\ fraction = << >>)
        THEN [nan |-> TRUE, negative |-> FALSE, whole |-> 0, fraction |-> << >>]
        ELSE [nan |-> FALSE, negative |-> Head(t) = "-",
              whole |-> DecimalValue(whole), fraction |-> fraction]

NoCast == [type |-> "none", text |-> << >>, number |-> StringToNumber(<<"a">>)]

\* the closure castContent; Date.parse reads every text drawn here that holds
\* the pattern of a date
castContent(value) ==
    LET lowerInput == toLowerCase(Trim(value))
        num == StringToNumber(value)
        \* /\d{4}-\d{2}-\d{2}/.test(value)
        isDate == \E i \in 1..(Len(value) - 9) :
                      /\ \A k \in {0, 1, 2, 3, 5, 6, 8, 9} : value[i + k] \in Digits
                      /\ value[i + 4] = "-" /\ value[i + 7] = "-"
    IN  IF lowerInput = <<"t", "r", "u", "e">>
        THEN [type |-> "boolean", text |-> <<"true">>, number |-> NoCast.number]
        ELSE IF lowerInput = <<"f", "a", "l", "s", "e">>
        THEN [type |-> "boolean", text |-> <<"false">>, number |-> NoCast.number]
        ELSE IF isDate THEN [type |-> "string", text |-> value, number |-> NoCast.number]
        ELSE IF ~num.nan THEN [type |-> "number", text |-> << >>, number |-> num]
        ELSE [type |-> "string", text |-> value, number |-> NoCast.number]

CastStart ==
    /\ cValue \in UNION {[1..n -> {" ", "0", "1", "-", ".", "a"}] : n \in 0..MaxCastLen}
                   \cup { <<"t", "r", "u", "e">>, <<" ", "T", "r", "u", "e", " ">>,
                          <<"f", "a", "l", "s", "e">>, <<"F", "A", "L", "S", "E">>,
                          <<"9", "9", ".", "9", "9">>, <<"a", "b", "c">>,
                          <<"2", "0", "2", "4", "-", "0", "1", "-", "0", "5">> }
    /\ cPc = "call"
    /\ cResult = NoCast

CastIdle == cValue = << >> /\ cPc = "idle" /\ cResult = NoCast

CastContent ==
    /\ cPc = "call"
    /\ cPc' = "returned"
    /\ cResult' = castContent(cValue)
    /\ UNCHANGED cValue

(***************************************************************************)
(* Specifications.                                                         *)
(***************************************************************************)
HeaderInit == HeaderStart /\ BodyIdle /\ StableIdle /\ PollIdle /\ SpanIdle /\ LookupIdle /\ CastIdle

HeaderNext ==
    \/ HeaderProcessRow /\ UNCHANGED <<bVars, wVars, pVars, sVars, lVars, cVars>>
    \/ HeaderFinish /\ UNCHANGED <<bVars, wVars, pVars, sVars, lVars, cVars>>

SpecHeader == HeaderInit /\ [][HeaderNext]_vars

\* header rows whose cells hold the text A or a text that reads as the name
\* applyDuplicateSuffix gives to the second A
HeaderDupInit ==
    /\ HeaderBegin
    /\ hCellDomain = [text : {<<"A">>, <<"A", DUPLICATE_SUFFIX_PREFIX, "1">>},
                      rowspan : 1..2, colspan : {1}]
    /\ BodyIdle /\ StableIdle /\ PollIdle /\ SpanIdle /\ LookupIdle /\ CastIdle

SpecHeaderDup == HeaderDupInit /\ [][HeaderNext]_vars

BodyInit == BodyStart /\ HeaderIdle /\ StableIdle /\ PollIdle /\ SpanIdle /\ LookupIdle /\ CastIdle

BodyNext ==
    \/ BodyProcessRow /\ UNCHANGED <<hVars, wVars, pVars, sVars, lVars, cVars>>
    \/ BodyFinish /\ UNCHANGED <<hVars, wVars, pVars, sVars, lVars, cVars>>

SpecBody == BodyInit /\ [][BodyNext]_vars

\* one materializer, of the header or of the body, on a static page: a row may
\* fail, and getRows may be called a second time
RowsInit ==
    \/ HeaderStartPlain /\ BodyIdle /\ StableIdle /\ PollIdle /\ SpanIdle /\ LookupIdle /\ CastIdle
    \/ BodyStart /\ HeaderIdle /\ StableIdle /\ PollIdle /\ SpanIdle /\ LookupIdle /\ CastIdle

RowsNext ==
    \/ HeaderProcessRow /\ UNCHANGED <<bVars, wVars, pVars, sVars, lVars, cVars>>
    \/ HeaderRowFails /\ UNCHANGED <<bVars, wVars, pVars, sVars, lVars, cVars>>
    \/ HeaderFinish /\ UNCHANGED <<bVars, wVars, pVars, sVars, lVars, cVars>>
    \/ HeaderAgain /\ UNCHANGED <<bVars, wVars, pVars, sVars, lVars, cVars>>
    \/ BodyProcessRow /\ UNCHANGED <<hVars, wVars, pVars, sVars, lVars, cVars>>
    \/ BodyRowFails /\ UNCHANGED <<hVars, wVars, pVars, sVars, lVars, cVars>>
    \/ BodyFinish /\ UNCHANGED <<hVars, wVars, pVars, sVars, lVars, cVars>>
    \/ BodyAgain /\ UNCHANGED <<hVars, wVars, pVars, sVars, lVars, cVars>>

SpecRows == RowsInit /\ [][RowsNext]_vars

StableInit == StableStart /\ HeaderIdle /\ BodyIdle /\ PollIdle /\ SpanIdle /\ LookupIdle /\ CastIdle

StableNext ==
    \/ StableTick /\ UNCHANGED <<hVars, bVars, pVars, sVars, lVars, cVars>>
    \/ StableTimeout /\ UNCHANGED <<hVars, bVars, pVars, sVars, lVars, cVars>>
    \/ StableWake /\ UNCHANGED <<hVars, bVars, pVars, sVars, lVars, cVars>>
    \/ StableTimePasses /\ UNCHANGED <<hVars, bVars, pVars, sVars, lVars, cVars>>
    \/ PageMutates /\ UNCHANGED <<hVars, bVars, pVars, sVars, lVars, cVars>>
    \/ PageSettles /\ UNCHANGED <<hVars, bVars, pVars, sVars, lVars, cVars>>

SpecStable == StableInit /\ [][StableNext]_vars

\* the event loop runs a ready continuation and fires a due timer; the clock
\* does not stop
\* the wait on a page that holds a table with no header rows or no body rows
\* and does not change
StableEmptyInit ==
    /\ now = 0
    /\ source \in {"unloaded", "noHeaderRows", "noBodyRows"}
    /\ wOptions \in StableOptions
    /\ wPc = "loop"
    /\ startTime = 0
    /\ lastSnapshot = "null"
    /\ stableStartTime = -1
    /\ wakeAt = 0
    /\ wError = NoError
    /\ frozen = TRUE
    /\ lastMutation = -1
    /\ dirty = FALSE
    /\ obsMutation = -1
    /\ gTicks = 0
    /\ gLastTick = -1
    /\ gSample = "null"
    /\ gSince = -1
    /\ gQuiet = 0
    /\ HeaderIdle /\ BodyIdle /\ PollIdle /\ SpanIdle /\ LookupIdle /\ CastIdle

StableEmptyNext ==
    \/ StableTick /\ UNCHANGED <<hVars, bVars, pVars, sVars, lVars, cVars>>
    \/ StableTimeout /\ UNCHANGED <<hVars, bVars, pVars, sVars, lVars, cVars>>
    \/ StableWake /\ UNCHANGED <<hVars, bVars, pVars, sVars, lVars, cVars>>
    \/ StableTimePasses /\ UNCHANGED <<hVars, bVars, pVars, sVars, lVars, cVars>>

\* the wait is the only process: the event loop runs its continuation or fires
\* its timer, and the clock does not stop
SpecStableEmpty == StableEmptyInit /\ [][StableEmptyNext]_vars /\ WF_vars(StableEmptyNext)

SpecStableFair ==
    /\ SpecStable
    /\ WF_vars(StableTick /\ UNCHANGED <<hVars, bVars, pVars, sVars, lVars, cVars>>)
    /\ WF_vars(StableTimeout /\ UNCHANGED <<hVars, bVars, pVars, sVars, lVars, cVars>>)
    /\ WF_vars(StableWake /\ UNCHANGED <<hVars, bVars, pVars, sVars, lVars, cVars>>)
    /\ WF_vars(StableTimePasses /\ UNCHANGED <<hVars, bVars, pVars, sVars, lVars, cVars>>)

PollInit == PollStart /\ HeaderIdle /\ BodyIdle /\ StableIdle /\ SpanIdle /\ LookupIdle /\ CastIdle

PollNext ==
    \/ PollInvoke /\ UNCHANGED <<hVars, bVars, wVars, sVars, lVars, cVars>>
    \/ PollCheckFails /\ UNCHANGED <<hVars, bVars, wVars, sVars, lVars, cVars>>
    \/ PollCheckPasses /\ UNCHANGED <<hVars, bVars, wVars, sVars, lVars, cVars>>
    \/ PollDeadline /\ UNCHANGED <<hVars, bVars, wVars, sVars, lVars, cVars>>
    \/ PollLateSettles /\ UNCHANGED <<hVars, bVars, wVars, sVars, lVars, cVars>>
    \/ PollWake /\ UNCHANGED <<hVars, bVars, wVars, sVars, lVars, cVars>>
    \/ PollTimePasses /\ UNCHANGED <<hVars, bVars, wVars, sVars, lVars, cVars>>

SpecPoll == PollInit /\ [][PollNext]_vars

SpanInit == SpanStart /\ HeaderIdle /\ BodyIdle /\ StableIdle /\ PollIdle /\ LookupIdle /\ CastIdle

SpanNext == parseSpanAttributes /\ UNCHANGED <<hVars, bVars, wVars, pVars, lVars, cVars>>

SpecSpan == SpanInit /\ [][SpanNext]_vars

LookupInit ==
    LookupStart /\ HeaderIdle /\ BodyIdle /\ StableIdle /\ PollIdle /\ SpanIdle /\ CastIdle

LookupNext ==
    getBodyCellLocatorByRowConditions /\ UNCHANGED <<hVars, bVars, wVars, pVars, sVars, cVars>>

SpecLookup == LookupInit /\ [][LookupNext]_vars

AccessInit ==
    AccessStart /\ HeaderIdle /\ BodyIdle /\ StableIdle /\ PollIdle /\ SpanIdle /\ CastIdle

AccessNext ==
    \/ getHeaderRows /\ UNCHANGED <<hVars, bVars, wVars, pVars, sVars, cVars>>
    \/ getMainHeaderRow /\ UNCHANGED <<hVars, bVars, wVars, pVars, sVars, cVars>>
    \/ getBodyRows /\ UNCHANGED <<hVars, bVars, wVars, pVars, sVars, cVars>>
    \/ getJson /\ UNCHANGED <<hVars, bVars, wVars, pVars, sVars, cVars>>
    \/ getBodyCellLocatorByRowConditions /\ UNCHANGED <<hVars, bVars, wVars, pVars, sVars, cVars>>
    \/ indexerMainHeaderRow /\ UNCHANGED <<hVars, bVars, wVars, pVars, sVars, cVars>>

SpecAccess == AccessInit /\ [][AccessNext]_vars

CastInit ==
    CastStart /\ HeaderIdle /\ BodyIdle /\ StableIdle /\ PollIdle /\ SpanIdle /\ LookupIdle

CastNext == CastContent /\ UNCHANGED <<hVars, bVars, wVars, pVars, sVars, lVars>>

SpecCast == CastInit /\ [][CastNext]_vars

(***************************************************************************)
(* Claims.                                                                 *)
(***************************************************************************)

\* C1: a header cell with text T placed at logical column c of row r with
\* rowSpan k > 1 has T at column c of every output row r+1 .. r+k-1 that
\* exists, for every k >= 2.  (Read on the grid getRows returns with colspan
\* enabled and duplicateSuffix off, where no column is removed or renamed.)
C1_RowspanReachesAllRows ==
    (hPc = "done" /\ hOptions.colspan.enabled /\ ~hOptions.duplicateSuffix) =>
        \A p \in hPlaced :
            p.rowspan > 1 =>
                \A r \in (p.row + 1)..Min(p.row + p.rowspan - 1, Len(headerRows) - 1) :
                    /\ Len(headerRows[r + 1]) > p.col
                    /\ headerRows[r + 1][p.col + 1] = p.text

\* the values the cells of body row r (0-based) would give, each repeated
\* over its colSpan, one cell after the other
RECURSIVE ExpandColspans(_)
ExpandColspans(cells) ==
    IF Len(cells) = 0 THEN << >>
    ELSE [i \in 1..cells[1].colspan |-> cells[1].content] \o ExpandColspans(Tail(cells))

\* C2: applying the row-span values stored for row r never replaces a value
\* that a physical cell of row r has written: every column populated by a
\* physical cell keeps the physical value in the output row.
C2_SpannedNeverOverwritesPhysical ==
    bPc = "done" =>
        \A r \in 1..Len(bodyRows) :
            \A c \in 1..Len(bPhysical[r]) : bodyRows[r][c] = bPhysical[r][c]

\* C3: a body cell with colSpan k contributes k consecutive columns and the
\* following cells come after them, so an output row that receives no
\* row-spanned value is its cells' values each repeated colSpan times, and
\* its length is the sum of the colSpans.
C3_ColspanFillsSideways ==
    bPc = "done" =>
        \A r \in 1..Len(bodyRows) :
            (r - 1) \notin DOMAIN spannedCells =>
                bodyRows[r] = ExpandColspans(bCells[r])

\* C4: a body cell at column c of row r with rowSpan k > 1 has its value at
\* column c of every output row r+1 .. r+k-1 that exists, whatever the rows
\* in between contain.
C4_RowspanReachesAllRows ==
    bPc = "done" =>
        \A r \in 1..Len(bodyRows) : \A c \in 1..Len(bCells[r]) :
            bCells[r][c].rowspan > 1 =>
                \A r2 \in (r + 1)..Min(r + bCells[r][c].rowspan - 1, Len(bodyRows)) :
                    /\ Len(bodyRows[r2]) >= c
                    /\ bodyRows[r2][c] = bCells[r][c].content

\* the option sets the stability wait is said to accept
ValidStableOptions(o) ==
    /\ o.checkInterval > 0
    /\ o.stabilityDuration > 0
    /\ o.timeout > 0
    /\ 2 * o.checkInterval <= o.stabilityDuration
    /\ o.stabilityDuration < o.timeout
    /\ o.timeout >= o.checkInterval + o.stabilityDuration

\* C5: waitForStable rejects every option set that violates one of the six
\* preconditions before any materialization: with such options no poll tick
\* ever happens and the wait neither sleeps nor returns.
C5_InvalidOptionsRejectedBeforePolling ==
    ~ValidStableOptions(wOptions) =>
        (gTicks = 0 /\ wPc \notin {"sleep", "returned"})

\* C6 (as claimed): whatever the mutation history, a successful return never
\* happens earlier than stabilityDuration after the page's last mutation.
C6_NeverEarlyAfterAnyMutation ==
    (wPc = "returned" /\ lastMutation >= 0) =>
        now >= lastMutation + wOptions.stabilityDuration

\* C6 (amended): a successful return never happens earlier than
\* stabilityDuration after the last mutation that a poll tick saw as a
\* change of the snapshot; a mutation undone before the next tick is not
\* seen and does not restart the window.
C6_NeverEarlyAfterObservedMutation ==
    (wPc = "returned" /\ obsMutation >= 0) =>
        now >= obsMutation + wOptions.stabilityDuration

\* C6 witness: the wait returned exactly stabilityDuration after a last
\* mutation that it observed, having sampled the page before it.
C6_Witness ==
    /\ wPc = "returned"
    /\ obsMutation > 0
    /\ obsMutation = lastMutation
    /\ wOptions.stabilityDuration >= 2
    /\ now = obsMutation + wOptions.stabilityDuration

\* the page stopped mutating at T = lastMutation (or never mutated), is
\* extractable, and T + stabilityDuration + 2*checkInterval < timeout
C7_Premise ==
    /\ frozen
    /\ source # "unloaded"
    /\ Max(lastMutation, startTime) + wOptions.stabilityDuration
           + 2 * wOptions.checkInterval < startTime + wOptions.timeout

C8_TimeoutPart ==
    /\ wPc = "threw" =>
          /\ now - startTime >= wOptions.timeout
          /\ wError = [timeout |-> wOptions.timeout,
                       stabilityDuration |-> wOptions.stabilityDuration,
                       locator |-> TableLocator]
    /\ gTicks > 0 => gLastTick - startTime < wOptions.timeout

\* C8 (as claimed): if the body grid never stays unchanged for
\* stabilityDuration the wait never returns success (a success implies the
\* page stayed unchanged for stabilityDuration at some time of the wait), and
\* the timeout error is as described.
C8_NoSuccessUnlessPageQuiet ==
    /\ wPc = "returned" => gQuiet >= wOptions.stabilityDuration
    /\ C8_TimeoutPart

\* C8 (amended): if the body grid as sampled at the poll ticks never stays
\* unchanged for stabilityDuration the wait never returns success (a success
\* implies a run of ticks, spanning stabilityDuration, that all returned the
\* same grid), and the timeout error is as described.
C8_NoSuccessUnlessSamplesQuiet ==
    /\ wPc = "returned" =>
          (gSample # "null" /\ gSince >= 0 /\ now - gSince >= wOptions.stabilityDuration)
    /\ C8_TimeoutPart

\* C8 witness: the timeout error after at least three ticks of a page that
\* never stayed unchanged for stabilityDuration.
C8_Witness ==
    /\ wPc = "threw"
    /\ gTicks >= 3
    /\ gQuiet < wOptions.stabilityDuration
    /\ lastMutation > 0

\* the poll has raised, and every invocation it started has failed
C9_Premise == pPc = "threw" /\ pAlways /\ ~pCut /\ attempts >= 1

\* C9 (as claimed): for a check that fails on every invocation, the poller raises
\* once the timeout has elapsed, and the message raised is the failure message of
\* the check's last invocation, verbatim.
C9_RaisesAfterTimeoutVerbatim ==
    C9_Premise =>
        /\ time >= deadline
        /\ pMessage = pLastFail.message

\* C9 (amended): for a check that fails on every invocation and has failed at
\* least once before the deadline, the poller raises no later than the timeout: at
\* the failure after which the next interval would reach the deadline, or at the
\* deadline when an invocation is still in flight then. The message raised is a
\* line break (the context line, when a context is given) followed by the message
\* of the last failure that settled, without the call log or the timeout text that
\* toPass appends.
C9_RaisesAtLastFailurePrefixed ==
    (pPc = "threw" /\ pAlways /\ pLastFail.at >= 0) =>
        /\ time <= deadline
        /\ IF pCut
           THEN /\ time = deadline
                /\ pLastFail.message = <<"failure ", NumStr(attempts - 1)>>
           ELSE /\ time = pLastFail.at
                /\ deadline <= time + pLastFail.interval
                /\ pLastFail.message = <<"failure ", NumStr(attempts)>>
        /\ pMessage = (IF pOptions.context # ""
                       THEN <<"\n[Context: ", pOptions.context, "]\n">>
                       ELSE <<"\n">>) \o pLastFail.message
        /\ CallLogIndex(pMessage) = 0
        /\ \A i \in 1..Len(pMessage) : pMessage[i] # "Timeout "

\* several failures, a context, and a raise before the timeout has elapsed
C9_Witness ==
    /\ C9_Premise
    /\ attempts >= 2
    /\ pOptions.context = "ctx"
    /\ time < deadline
    /\ pMessage = <<"\n[Context: ", "ctx", "]\n", "failure ", NumStr(attempts)>>

\* C10: the poll returns at the first invocation that completes without failing: a
\* check that fails n times and then succeeds is invoked exactly n+1 times, every
\* failure is followed by a wait of at least the interval, the check is not invoked
\* after its success, and the poll raises only if no invocation succeeded.
C10_ReturnsOnFirstSuccess ==
    /\ succeeded <= 1
    /\ succeeded = 1 => pPc = "returned"
    /\ pPc = "returned" =>
        /\ ~pAlways
        /\ succeeded = 1
        /\ attempts = pFailures + 1
        /\ Len(pWaits) = pFailures
        /\ pMessage = << >>
    /\ \A i \in 1..Len(pWaits) :
        /\ pWaits[i].to - pWaits[i].from >= pWaits[i].interval
        /\ pWaits[i].interval >= 1
        /\ (pPc \in {"invoke", "running"} /\ i = Len(pWaits)) => time >= pWaits[i].to
        /\ i < Len(pWaits) => pWaits[i + 1].from >= pWaits[i].to
    /\ (pPc = "running" /\ attempts >= 2) => Len(pWaits) = attempts - 1

\* two failures, then the success that ends the poll
C10_Witness ==
    /\ pPc = "returned"
    /\ pFailures = 2
    /\ attempts = 3
    /\ Len(pWaits) = 2
    /\ time >= pWaits[1].interval + pWaits[2].interval

\* C11: within one poll at most one invocation of the check is in flight: an
\* invocation starts only when no invocation is in flight, and a retry starts only
\* when the sleep of the interval that followed the last failure has finished.
C11_OneInvocationInFlight ==
    [][attempts' > attempts =>
          /\ pInFlight = 0
          /\ pInFlight' = 1
          /\ attempts >= 1 =>
                /\ pLastFail.at >= 0
                /\ time >= pLastFail.at + pLastFail.interval]_vars

\* the third invocation is in flight, alone, after two failures and two sleeps
C11_Witness ==
    /\ pPc = "running"
    /\ attempts = 3
    /\ pInFlight = 1
    /\ Len(pWaits) = 2

\* the message holds "[Context: <label>]" with the failure message of the check
\* after it
HasContextAhead(message, label) ==
    \E i \in 1..(Len(message) - 3) :
        /\ message[i] = "\n[Context: "
        /\ message[i + 1] = label
        /\ message[i + 2] = "]\n"
        /\ message[i + 3] = "failure "

\* C12 (as claimed): whenever the poller raises, its message holds
\* "[Context: <label>]" ahead of the failure message of the check if and only if
\* a context label was supplied; without a label no "[Context:" text is in it.
C12_ContextIffLabel ==
    pPc = "threw" =>
        /\ (pOptions.context # "") <=> HasContextAhead(pMessage, pOptions.context)
        /\ pOptions.context = "" =>
              \A i \in 1..Len(pMessage) : pMessage[i] # "\n[Context: "

\* C12 (amended): when the poller raises after at least one invocation of the
\* check has failed, its message holds "[Context: <label>]" ahead of the failure
\* message if and only if a label was supplied; without a label no "[Context:"
\* text is in any message raised; when no invocation failed before the deadline
\* the message is the timeout text of toPass, without the context.
C12_ContextIffLabelAfterFailure ==
    pPc = "threw" =>
        /\ pLastFail.at >= 0 =>
              ((pOptions.context # "") <=> HasContextAhead(pMessage, pOptions.context))
        /\ pLastFail.at < 0 => pMessage = TimeoutMessage(pOptions.timeout)
        /\ pOptions.context = "" =>
              \A i \in 1..Len(pMessage) : pMessage[i] # "\n[Context: "

\* the poll raised with a label, after two failures of the check
C12_Witness ==
    /\ pPc = "threw"
    /\ pOptions.context = "ctx"
    /\ attempts = 2
    /\ pLastFail.at >= 0
    /\ HasContextAhead(pMessage, "ctx")

\* the text processHeaderCellData works with: the placeholder for an empty text
\* when emptyCellReplacement is set
EffectiveText(cell) ==
    IF cell.text = << >> /\ hOptions.emptyCellReplacement
    THEN <<"{{Empty}}">> ELSE cell.text

\* what C13 says a header cell yields at its position in its row
C13_Expected(cell) ==
    IF cell.colspan = 1 \/ ~hOptions.colspan.enabled THEN <<EffectiveText(cell)>>
    ELSE IF hOptions.colspan.suffix
    THEN [i \in 1..cell.colspan |->
            IF i = 1 THEN EffectiveText(cell)
            ELSE EffectiveText(cell) \o <<"__C", NumStr(i - 1)>>]
    ELSE [i \in 1..cell.colspan |-> EffectiveText(cell)]

RECURSIVE C13_ExpectedRow(_)
C13_ExpectedRow(cells) ==
    IF Len(cells) = 0 THEN << >>
    ELSE C13_Expected(cells[1]) \o C13_ExpectedRow(Tail(cells))

\* no cell of the header has a row span, and the cells of one column hold no
\* text with the colspan pattern
C13_RowInScope(r) ==
    /\ \A q \in 1..Len(hCells) : \A c \in 1..Len(hCells[q]) : hCells[q][c].rowspan = 1
    /\ \A c \in 1..Len(hCells[r]) :
          hCells[r][c].colspan = 1 => ~COLSPAN_PATTERN_test(hCells[r][c].text)

\* C13: a header cell with text T and colSpan k > 1 (rowSpan 1) yields at its
\* position [T, T__C1, .., T__C(k-1)] with colspan enabled and suffix, k copies
\* of T with colspan enabled without suffix, and the single T with colspan
\* disabled: without duplicate suffixes, a row is its cells' expected values.
C13_ColspanExpansion ==
    (hPc = "done" /\ ~hOptions.duplicateSuffix) =>
        \A r \in 1..Len(headerRows) :
            C13_RowInScope(r) => headerRows[r] = C13_ExpectedRow(hCells[r])

\* C13 for cells whose text does not hold the colspan pattern
C13_ColspanExpansionPlainText ==
    (hPc = "done" /\ ~hOptions.duplicateSuffix) =>
        \A r \in 1..Len(headerRows) :
            (C13_RowInScope(r)
               /\ \A c \in 1..Len(hCells[r]) : ~COLSPAN_PATTERN_test(hCells[r][c].text))
            => headerRows[r] = C13_ExpectedRow(hCells[r])

\* the number of the occurrence of row[i] among row[1..i]
C14_Occurrence(row, i) == Cardinality({k \in 1..i : row[k] = row[i]})

\* C14: with duplicateSuffix, in each header row taken by itself the first
\* occurrence of a text is unchanged and its j-th occurrence (j >= 2) becomes
\* text__D(j-1); the count of occurrences starts again at every row.
C14_DuplicateSuffixPerRow ==
    (hPc = "done" /\ hOptions.duplicateSuffix) =>
        /\ Len(headerRows) = Len(hBeforeSuffix)
        /\ \A r \in 1..Len(headerRows) :
              /\ Len(headerRows[r]) = Len(hBeforeSuffix[r])
              /\ \A i \in 1..Len(headerRows[r]) :
                    headerRows[r][i] =
                        IF C14_Occurrence(hBeforeSuffix[r], i) = 1
                        THEN hBeforeSuffix[r][i]
                        ELSE hBeforeSuffix[r][i]
                                 \o <<"__D", NumStr(C14_Occurrence(hBeforeSuffix[r], i) - 1)>>

\* a row with three occurrences of a text, and a later row where it occurs again
C14_Witness ==
    /\ hPc = "done"
    /\ hOptions.duplicateSuffix
    /\ Len(headerRows) >= 2
    /\ headerRows[1] = <<<<"A">>, <<"A", "__D", "1">>, <<"A", "__D", "2">>>>
    /\ headerRows[2] = <<<<"A">>>>

\* the row C15 expects of the cells of row r: the placeholder takes the place of
\* an empty text before the colspan names and the duplicate names are derived
C15_ExpectedRow(cells) ==
    LET row == C13_ExpectedRow(cells)
    IN IF ~hOptions.duplicateSuffix THEN row
       ELSE [i \in 1..Len(row) |->
               IF C14_Occurrence(row, i) = 1 THEN row[i]
               ELSE row[i] \o <<"__D", NumStr(C14_Occurrence(row, i) - 1)>>]

\* no cell of the header has a row span, no cell of row r holds the colspan pattern
C15_RowInScope(r) ==
    /\ \A q \in 1..Len(hCells) : \A c \in 1..Len(hCells[q]) : hCells[q][c].rowspan = 1
    /\ \A c \in 1..Len(hCells[r]) : ~COLSPAN_PATTERN_test(hCells[r][c].text)

\* C15: with emptyCellReplacement every header cell whose text is empty is emitted
\* as "{{Empty}}", replaced before the colspan and duplicate suffixes are derived,
\* and no value of the output header grid is the empty string; without it the
\* empty cells are emitted as "".
C15_EmptyCellReplacement ==
    hPc = "done" =>
        /\ hOptions.emptyCellReplacement =>
              \A r \in 1..Len(headerRows) : \A i \in 1..Len(headerRows[r]) :
                  headerRows[r][i] # << >>
        /\ \A r \in 1..Len(headerRows) :
              C15_RowInScope(r) => headerRows[r] = C15_ExpectedRow(hCells[r])

\* C15 for headers in which no cell text holds the colspan pattern
C15_EmptyCellReplacementPlainText ==
    (hPc = "done"
       /\ \A q \in 1..Len(hCells) : \A c \in 1..Len(hCells[q]) :
              ~COLSPAN_PATTERN_test(hCells[q][c].text)) =>
        /\ hOptions.emptyCellReplacement =>
              \A r \in 1..Len(headerRows) : \A i \in 1..Len(headerRows[r]) :
                  headerRows[r][i] # << >>
        /\ \A r \in 1..Len(headerRows) :
              C15_RowInScope(r) => headerRows[r] = C15_ExpectedRow(hCells[r])

\* C16: the strict parseSpanAttributes returns 1 for an absent attribute, fails
\* for every present attribute whose value does not parse as an integer or
\* parses to less than 1, names that attribute and quotes its raw value in the
\* error, and never returns a span below 1.
C16_Present(raw) == raw # NullAttr

C16_Bad(raw) == C16_Present(raw) /\ (parseInt(raw).nan \/ parseInt(raw).value < 1)

C16_StrictSpanParsing ==
    sPc \in {"returned", "threw"} =>
        /\ (sPc = "returned" /\ rowspanAttr = NullAttr) => sResult.rowspan = 1
        /\ (sPc = "returned" /\ colspanAttr = NullAttr) => sResult.colspan = 1
        /\ (C16_Bad(rowspanAttr) \/ C16_Bad(colspanAttr)) => sPc = "threw"
        /\ sPc = "threw" =>
               \/ sError = SpanError("rowspan", rowspanAttr) /\ C16_Bad(rowspanAttr)
               \/ sError = SpanError("colspan", colspanAttr) /\ C16_Bad(colspanAttr)
        /\ sPc = "returned" => sResult.rowspan >= 1 /\ sResult.colspan >= 1

\* The same statement with the empty attribute value (rowspan="") left out of
\* the values that have to fail.
C16_BadNonEmpty(raw) == C16_Bad(raw) /\ raw # << >>

C16_StrictSpanParsingNonEmpty ==
    sPc \in {"returned", "threw"} =>
        /\ (sPc = "returned" /\ rowspanAttr = NullAttr) => sResult.rowspan = 1
        /\ (sPc = "returned" /\ colspanAttr = NullAttr) => sResult.colspan = 1
        /\ (C16_BadNonEmpty(rowspanAttr) \/ C16_BadNonEmpty(colspanAttr)) => sPc = "threw"
        /\ sPc = "threw" =>
               \/ sError = SpanError("rowspan", rowspanAttr) /\ C16_BadNonEmpty(rowspanAttr)
               \/ sError = SpanError("colspan", colspanAttr) /\ C16_BadNonEmpty(colspanAttr)
        /\ sPc = "returned" => sResult.rowspan >= 1 /\ sResult.colspan >= 1

\* C17: when a cell of row i cannot be read or parsed, the header and the body
\* materializer each raise an error that carries the row index i and the
\* locator and selector of the call; the row is read once (no retry), no row
\* after i is processed, and the call ends there without returning rows.
C17_Raised(pc, error, rows, reads, locator) ==
    pc = "threw" =>
        /\ error.rowIndex = Len(rows)
        /\ error.locator = locator
        /\ error.selector = "columnsSelector"
        /\ error.error = "cell error"
        /\ reads = error.rowIndex + 1

C17_Ended ==
    /\ hPc = "threw" => hPc' = "threw" /\ headerRows' = headerRows /\ hReads' = hReads
    /\ bPc = "threw" => bPc' = "threw" /\ bodyRows' = bodyRows /\ bReads' = bReads

C17_FailedRowRaises ==
    /\ [](C17_Raised(hPc, hError, headerRows, hReads, "headerRowLocator"))
    /\ [](C17_Raised(bPc, bError, bodyRows, bReads, "rowLocator"))
    /\ [][C17_Ended]_vars

C17_Witness ==
    /\ hPc = "threw"
    /\ hError.rowIndex = 1
    /\ hCount = 3
    /\ Len(headerRows) = 1

\* C18: materializing the same unchanged grid twice with the same options gives
\* the same header rows and the same body rows both times, and each call of
\* getRows starts from an empty carry map and an empty store of spanned cells.
C18_Idempotent ==
    /\ (hRun = 2 /\ hPc = "done") => headerRows = hFirst
    /\ (bRun = 2 /\ bPc = "done") => bodyRows = bFirst
    /\ (hRun = 2 /\ hPc = "rows" /\ hReads = 0) => DOMAIN rowSpans = {}
    /\ (bRun = 2 /\ bPc = "rows" /\ bReads = 0) => DOMAIN spannedCells = {}

C18_Witness ==
    /\ hRun = 2
    /\ hPc = "done"
    /\ Len(headerRows) >= 2
    /\ DOMAIN rowSpans # {}
    /\ headerRows = hFirst

\* The call got its table and its main header row (getTable and mainHeaderRow
\* did not throw) and has ended.
LookupHasMainHeader ==
    /\ lPc \in {"returned", "threw"}
    /\ lOp = "getBodyCellLocatorByRowConditions"
    /\ Len(lHeaderRows) > 0
    /\ Len(lBodyRows) > 0
    /\ mainHeaderIndex(lHeaderRows, setMainHeaderRow) \in 0..(Len(lHeaderRows) - 1)

LookupMainHeader == lHeaderRows[mainHeaderIndex(lHeaderRows, setMainHeaderRow) + 1]

LookupPresent(header) == \E i \in 1..Len(LookupMainHeader) : LookupMainHeader[i] = header

\* the first position of a header in the main header row, counted from 1
LookupPosition(header) ==
    CHOOSE i \in 1..Len(LookupMainHeader) :
        /\ LookupMainHeader[i] = header
        /\ \A j \in 1..(i - 1) : LookupMainHeader[j] # header

\* body row r (counted from 1) satisfies every condition, a missing cell being ""
LookupSatisfies(r) ==
    \A k \in 1..Len(lConditions) :
        LET i == LookupPosition(lConditions[k].header)
        IN  IF i <= Len(lBodyRows[r]) THEN lBodyRows[r][i] = lConditions[k].value
            ELSE lConditions[k].value = << >>

\* C19: when the target header and every condition header are in the main
\* header row, getBodyCellLocatorByRowConditions returns the locator at (lowest
\* row satisfying every condition, index of the target header), and raises
\* 'No row found matching conditions' when no row satisfies them all.
C19_SelectsFirstMatchingRow ==
    (/\ LookupHasMainHeader
     /\ LookupPresent(lTarget)
     /\ \A k \in 1..Len(lConditions) : LookupPresent(lConditions[k].header))
    => IF \E r \in 1..Len(lBodyRows) : LookupSatisfies(r)
       THEN /\ lPc = "returned"
            /\ LookupSatisfies(lLocator.row + 1)
            /\ \A r \in 1..lLocator.row : ~LookupSatisfies(r)
            /\ lLocator.cell = LookupPosition(lTarget) - 1
       ELSE /\ lPc = "threw"
            /\ lError.message = "No row found matching conditions"

\* the second of two rows is selected, through a cell the row does not have
C19_Witness ==
    /\ lPc = "returned"
    /\ lLocator.row = 1
    /\ Len(lConditions) = 2
    /\ \E k \in 1..2 :
          /\ LookupPresent(lConditions[k].header)
          /\ LookupPosition(lConditions[k].header) > Len(lBodyRows[2])

\* C20: whenever the target header or one of the condition headers is absent
\* from the main header row, the call raises 'Header "..." not found' for an
\* absent header, whatever the body rows and the other conditions are.
C20_AbsentHeaderRaises ==
    (/\ LookupHasMainHeader
     /\ \/ ~LookupPresent(lTarget)
        \/ \E k \in 1..Len(lConditions) : ~LookupPresent(lConditions[k].header))
    => /\ lPc = "threw"
       /\ lError.message = "Header not found"
       /\ ~LookupPresent(lError.header)
       /\ \/ lError.header = lTarget
          \/ \E k \in 1..Len(lConditions) : lError.header = lConditions[k].header

\* The same for the target header, and for an absent condition header that no
\* condition on a present header precedes.
C20_AbsentHeaderRaisesWhenReached ==
    (/\ LookupHasMainHeader
     /\ \/ ~LookupPresent(lTarget)
        \/ \E k \in 1..Len(lConditions) :
              /\ ~LookupPresent(lConditions[k].header)
              /\ \A j \in 1..(k - 1) : ~LookupPresent(lConditions[j].header))
    => /\ lPc = "threw"
       /\ lError.message = "Header not found"
       /\ ~LookupPresent(lError.header)

\* The main header row or the error that a call with header rows and an option
\* setMainHeaderRow has to give.
C21_Expected ==
    LET n == Len(lHeaderRows)
    IN  IF setMainHeaderRow = << >>
        THEN lPc = "returned" /\ lReturn = lHeaderRows[n]
        ELSE IF setMainHeaderRow[1] >= 0 /\ setMainHeaderRow[1] < n
        THEN lPc = "returned" /\ lReturn = lHeaderRows[setMainHeaderRow[1] + 1]
        ELSE /\ lPc = "threw"
             /\ lError.message = "Header row index out of bounds"
             /\ lError.index = setMainHeaderRow[1]

\* C21: the main header row is the last header row when setMainHeaderRow is not
\* given, header row i when it is given as an index i of a header row (also
\* for i = 0), and any other index raises 'Header row index i out of bounds';
\* for mainHeaderRow of PlaywrightTable in both of its versions.
C21_MainHeaderRow ==
    (/\ lPc \in {"returned", "threw"}
     /\ Len(lHeaderRows) > 0
     /\ \/ lOp = "getMainHeaderRow" /\ Len(lBodyRows) > 0
        \/ lOp = "indexer.mainHeaderRow")
    => C21_Expected

\* The same for the version that getMainHeaderRow of part_006 calls.
C21_MainHeaderRowChecked ==
    (/\ lPc \in {"returned", "threw"}
     /\ Len(lHeaderRows) > 0
     /\ lOp = "getMainHeaderRow" /\ Len(lBodyRows) > 0)
    => C21_Expected

\* C22: an accessor that goes through getTable raises 'No header rows found'
\* when there are no header rows, 'No body rows found' when there are header
\* rows and no body rows, and returns only when both grids have rows.
C22_GetTableOps ==
    {"getHeaderRows", "getMainHeaderRow", "getBodyRows", "getJson",
     "getBodyCellLocatorByRowConditions"}

C23_Blank == \A i \in 1..Len(cValue) : cValue[i] = " "

C23_EmptyStaysEmpty ==
    (cPc = "returned" /\ C23_Blank) => cResult.type = "string" /\ cResult.text = << >>

\* The other casts of the examples: booleans, numbers, texts and dates.
C23_OtherCasts ==
    cPc = "returned" =>
        /\ cValue = <<" ", "T", "r", "u", "e", " ">> =>
              cResult.type = "boolean" /\ cResult.text = <<"true">>
        /\ cValue = <<"a", "b", "c">> => cResult.type = "string" /\ cResult.text = cValue
        /\ cValue = <<"9", "9", ".", "9", "9">> =>
              /\ cResult.type = "number"
              /\ cResult.number.whole = 99 /\ cResult.number.fraction = <<"9", "9">>
        /\ cValue = <<" ", "0", " ">> => cResult.type = "number" /\ cResult.number.whole = 0
        /\ cValue = <<"2", "0", "2", "4", "-", "0", "1", "-", "0", "5">> =>
              cResult.type = "string" /\ cResult.text = cValue

\* the message the wrapper gives the last failure that settled
C24_LastFailurePrefixed ==
    (IF pOptions.context # "" THEN <<"\n[Context: ", pOptions.context, "]\n">>
     ELSE <<"\n">>) \o pLastFail.message

\* once the deadline has cut an invocation the poll has failed for good: no
\* invocation is started, and the poll neither returns nor changes its error
C24_Discarded ==
    pCut => /\ pPc' = "threw"
            /\ attempts' = attempts
            /\ succeeded' = succeeded
            /\ pMessage' = pMessage

C25_SyntheticTimeout == \E i \in 1..Len(pMessage) : pMessage[i] = "Timeout "

C25_NeverSyntheticTimeout ==
    pPc = "threw" =>
        /\ pLastFail.at >= 0
        /\ pMessage = C24_LastFailurePrefixed
        /\ ~C25_SyntheticTimeout

\* C25 (amended): whenever the poll fails because the deadline elapsed after at
\* least one invocation had failed, the message raised is the last failure
\* message of the check (after the wrapper's line break and context) and never
\* the generic timeout message; when the deadline cut the first invocation, it
\* is the generic timeout message.
C25_NeverSyntheticTimeoutAfterFailure ==
    pPc = "threw" =>
        IF pLastFail.at >= 0
        THEN /\ pMessage = C24_LastFailurePrefixed
             /\ ~C25_SyntheticTimeout
             /\ CallLogIndex(pMessage) = 0
        ELSE /\ pCut /\ attempts = 1
             /\ C25_SyntheticTimeout

C25_Witness ==
    /\ pPc = "threw"
    /\ ~pCut
    /\ attempts = 3
    /\ pMessage = <<"\n[Context: ", "ctx", "]\n", "failure ", "3">>

\* a tick (one materialization) on a page whose materialization fails clears
\* the snapshot and the start of the window and goes to the sleep
C26_FailedTick ==
    (gTicks' = gTicks + 1 /\ source = "unloaded") =>
        /\ lastSnapshot' = "null"
        /\ stableStartTime' = -1
        /\ wPc' = "sleep"
        /\ wError' = wError

\* C26: during waitForStable a failed materialization does not end the wait:
\* the tick leaves no snapshot and no start of the window, polling goes on, the
\* window is measured from the first successful snapshot after the failure, and
\* success is never reported on a tick whose materialization failed.
C26_FailedMaterializationResets ==
    /\ [][C26_FailedTick]_vars
    /\ [](wPc = "returned" =>
            /\ gSample # "null"
            /\ gSample = lastSnapshot
            /\ stableStartTime = gSince
            /\ now - gSince >= wOptions.stabilityDuration)
    /\ []((gSample = "null" /\ gTicks > 0) => lastSnapshot = "null" /\ stableStartTime = -1)

\* a materialization succeeds, the page stops being extractable, and the next
\* tick fails: the wait sleeps on with no snapshot
C26_Witness ==
    /\ wPc = "sleep"
    /\ source = "unloaded"
    /\ gTicks = 2
    /\ gSample = "null"
    /\ obsMutation >= 0
    /\ lastSnapshot = "null"
    /\ now - startTime < wOptions.timeout

\* C27: with duplicateSuffix enabled, the values of one output header row are
\* pairwise distinct, also when the text of a cell reads as a generated name
C27_GeneratedName == <<"A", DUPLICATE_SUFFIX_PREFIX, "1">>

C27_PairwiseDistinct ==
    (hPc = "done" /\ hOptions.duplicateSuffix) =>
        \A r \in 1..Len(headerRows) :
            \A i, j \in 1..Len(headerRows[r]) :
                i # j => headerRows[r][i] # headerRows[r][j]

\* the rows that hold no text reading as a generated name have distinct values
C27_PairwiseDistinctPlain ==
    (hPc = "done" /\ hOptions.duplicateSuffix) =>
        \A r \in 1..Len(headerRows) :
            (\A i \in 1..Len(hBeforeSuffix[r]) : hBeforeSuffix[r][i] # C27_GeneratedName) =>
                \A i, j \in 1..Len(headerRows[r]) :
                    i # j => headerRows[r][i] # headerRows[r][j]

\* C28: once row i has been processed rowSpans holds no entry recorded before
\* row i (every entry comes from a cell of row i with rowspan > 1 that covers
\* its column), so every value of output row i is derived from a cell of row i
\* or from a cell of an earlier row whose rowspan covers row i
C28_Covers(p, c) == p.col <= c /\ c < p.col + p.colspan

C28_NoEarlierEntry ==
    \A c \in DOMAIN rowSpans :
        \E p \in hPlaced :
            p.row = Len(headerRows) - 1 /\ p.rowspan > 1 /\ C28_Covers(p, c)

C28_Derived ==
    \A i \in 0..(Len(headerRows) - 1) :
        \A c \in 0..(Len(headerRows[i + 1]) - 1) :
            \E p \in hPlaced :
                /\ C28_Covers(p, c)
                /\ p.row = i \/ (p.row < i /\ i < p.row + p.rowspan)

C28_CarryNeverOutlivesItsRow ==
    (hPc = "rows" /\ Len(headerRows) > 0) => (C28_NoEarlierEntry /\ C28_Derived)

\* the entry that stays behind a row with no cells or a shorter row
C28_EarlierEntryStays == (hPc = "rows" /\ Len(headerRows) > 0) => C28_NoEarlierEntry

\* the value that comes out in a row its cell does not span
C28_ValueOutsideSpan == (hPc = "rows" /\ Len(headerRows) > 0) => C28_Derived

\* C29: for every body row r and column j, the locator getBodyCellLocator gives
\* for (r, j) designates the physical cell whose content is the materialized
\* value bodyRows[r][j], also in rows with row-spanned values or colspan cells
C29_Designates(r, j) ==
    LET located == LocatedCell(bCells, getBodyCellLocator(r, j))
    IN  located # << >> /\ located[1].content = bodyRows[r + 1][j + 1]

C29_LocatorDesignatesValue ==
    bPc = "done" =>
        \A r \in 0..(Len(bodyRows) - 1) :
            \A j \in 0..(Len(bodyRows[r + 1]) - 1) :
                bodyRows[r + 1][j + 1] # Undefined => C29_Designates(r, j)

\* in a table whose cells have no spans the locator designates the cell of the value
C29_LocatorDesignatesValuePlain ==
    (/\ bPc = "done"
     /\ \A r \in 1..Len(bCells) : \A i \in 1..Len(bCells[r]) :
            bCells[r][i].rowspan = 1 /\ bCells[r][i].colspan = 1) =>
        \A r \in 0..(Len(bodyRows) - 1) :
            \A j \in 0..(Len(bodyRows[r + 1]) - 1) : C29_Designates(r, j)

\* C30: waitForStable never returns while the table has zero header rows or zero
\* body rows: every tick on such a table is a failed materialization (snapshot
\* and stability timer cleared), and a table that stays empty for the whole wait
\* ends in the 'Table did not stabilize' error
C30_EmptyTable ==
    Len(SourceTable(source).headerRows) = 0 \/ Len(SourceTable(source).bodyRows) = 0

C30_EmptyTableTimesOut ==
    /\ [](C30_EmptyTable => wPc # "returned")
    /\ [][(gTicks' = gTicks + 1 /\ C30_EmptyTable) =>
              (lastSnapshot' = "null" /\ stableStartTime' = -1 /\ wPc' = "sleep")]_vars
    /\ (C30_EmptyTable /\ wPc = "loop") ~>
           (wPc = "threw" /\ wError = StableTimeoutError(wOptions))

\* a table with header rows and no body rows was sampled three times, unchanged
\* for longer than the stability duration, and the wait timed out
C30_Witness ==
    /\ wPc = "threw" /\ wError = StableTimeoutError(wOptions)
    /\ source = "noBodyRows" /\ gTicks >= 3
    /\ wOptions.stabilityDuration = 1 /\ now >= 3

====
